---- MODULE Spec2Model ----
(***************************************************************************)
(* GridTRX: the ledger store (models.py), its lock-date boundary, the      *)
(* year-end rollover (mcp_server.py) and the report aggregation engine.    *)
(*                                                                         *)
(* Dates are day numbers: the code compares normalised YYYY-MM-DD strings, *)
(* whose lexicographic order is the calendar order.  The lock date ''      *)
(* (none) is NoLock.  Amounts are integer cents.  An account id is its     *)
(* index in the accounts table (AUTOINCREMENT, accounts are never          *)
(* deleted).  A line is identified by (transaction_id, sort_order), which  *)
(* add_transaction and update_transaction keep unique.  The free-text      *)
(* columns (description, reference, notes) take part in no decision of     *)
(* the ledger store and are left out.                                      *)
(***************************************************************************)
EXTENDS Integers, Sequences, FiniteSets, TLC

VARIABLES
    accounts,       \* table accounts: sequence of rows, id = index
    transactions,   \* table transactions: set of rows [id, date]
    lines,          \* table lines: set of rows
    seq_txn,        \* sqlite_sequence of transactions (AUTOINCREMENT)
    seq_item,       \* sqlite_sequence of report_items (AUTOINCREMENT)
    reports,        \* table reports: sequence of names, id = index
    report_items,   \* table report_items: set of rows
    import_rules,   \* table import_rules: set of rows
    tax_codes,      \* table tax_codes: set of rows
    meta,           \* table meta: lock_date, fiscal_year
    last,           \* the last call: its name, its error and what it returned
    calls           \* the calls in flight: per process, where it stands and its locals

vars == <<accounts, transactions, lines, seq_txn, seq_item, reports, report_items,
          import_rules, tax_codes, meta, last, calls>>

(***************************************************************************)
(* Bounds of the model.                                                    *)
(***************************************************************************)
MaxDate == 2
MaxAmt == 1
MaxTxnId == 1

\* get_meta('lock_date', '') of books without a lock date: the empty string.
NoLock == 0
\* normalize_date of a string that is no date: None.
NoDate == 0
\* add_transaction wants at least this many lines.
MinLines == 2

Dates == 1..MaxDate
Amounts == (0 - MaxAmt)..MaxAmt
\* The ids a caller names: every id handed out so far, and one that was not.
AcctIds == 1..3
TxnIds == 1..(MaxTxnId + 1)

\* The (account_id, amount) tuples a caller passes as one line.
LineInputs == [account_id : AcctIds, amount : Amounts]

RECURSIVE SeqsUpTo(_, _)
SeqsUpTo(S, n) ==
    IF n = 0 THEN {<<>>}
    ELSE LET shorter == SeqsUpTo(S, n - 1)
         IN shorter \cup {Append(s, x) : s \in {t \in shorter : Len(t) = n - 1}, x \in S}

\* Line lists below and at the least legal length.
LineLists == SeqsUpTo(LineInputs, MinLines)

\* The accounts a caller creates.
AcctA == [name |-> "A", normal_balance |-> "D", account_type |-> "posting"]
AcctB == [name |-> "B", normal_balance |-> "C", account_type |-> "posting"]
AcctT == [name |-> "T", normal_balance |-> "C", account_type |-> "total"]
AccountInputs == {AcctA, AcctT}

(***************************************************************************)
(* The database as one value, and the outcome of a call.                   *)
(***************************************************************************)
DB == [accounts |-> accounts, transactions |-> transactions, lines |-> lines,
       seq_txn |-> seq_txn, seq_item |-> seq_item, reports |-> reports,
       report_items |-> report_items, import_rules |-> import_rules,
       tax_codes |-> tax_codes, meta |-> meta]
Ledger == <<accounts, transactions, lines, seq_txn, seq_item, reports, report_items,
            import_rules, tax_codes, meta>>

Ok(db, ret) == [db |-> db, err |-> "ok", ret |-> ret]
Raise(db, err) == [db |-> db, err |-> err, ret |-> 0]

\* with get_db() as db: commit when the block ends, rollback when it raises.
get_db_no_rollback(before, r) == r
get_db(before, r) == IF r.err = "ok" THEN r ELSE Raise(before, r.err)

get_meta(db, key) == db.meta[key]
set_meta(db, key, value) == [db EXCEPT !.meta[key] = value]

RECURSIVE SumAmounts(_)
SumAmounts(ls) == IF ls = <<>> THEN 0 ELSE ls[1].amount + SumAmounts(Tail(ls))

AccountExists(db, id) == id \in 1..Len(db.accounts)
TxnExists(db, id) == \E t \in db.transactions : t.id = id
TxnRow(db, id) == CHOOSE t \in db.transactions : t.id = id

(***************************************************************************)
(* add_account: INSERT INTO accounts; name is UNIQUE.                      *)
(***************************************************************************)
add_account(db, a) ==
    IF \E i \in 1..Len(db.accounts) : db.accounts[i].name = a.name
    THEN Raise(db, "IntegrityError")
    ELSE Ok([db EXCEPT !.accounts = Append(@, a)], Len(db.accounts) + 1)

(***************************************************************************)
(* INSERT INTO lines, one row after the other; the foreign keys of         *)
(* transaction_id and account_id fail the statement that breaks them.      *)
(***************************************************************************)
RECURSIVE InsertLines(_, _, _, _)
InsertLines(db, txn_id, ls, i) ==
    IF i > Len(ls) THEN Ok(db, txn_id)
    ELSE IF ~TxnExists(db, txn_id) \/ ~AccountExists(db, ls[i].account_id)
         THEN Raise(db, "IntegrityError")
         ELSE InsertLines(
                [db EXCEPT !.lines = @ \cup
                    {[transaction_id |-> txn_id, sort_order |-> i - 1,
                      account_id |-> ls[i].account_id, amount |-> ls[i].amount,
                      reconciled |-> 0, doc_on_file |-> 0]}],
                txn_id, ls, i + 1)

PostsToTotal(db, ls) ==
    \E i \in 1..Len(ls) :
        /\ AccountExists(db, ls[i].account_id)
        /\ db.accounts[ls[i].account_id].account_type = "total"

IsLocked(db, date_str) ==
    get_meta(db, "lock_date") # NoLock /\ date_str <= get_meta(db, "lock_date")

add_transaction_no_balance_check(db, date_str, ls) ==
    IF Len(ls) < 2 THEN Raise(db, "TooFewLines")
    ELSE IF PostsToTotal(db, ls) THEN Raise(db, "TotalAccount")
    ELSE IF IsLocked(db, date_str) THEN Raise(db, "Locked")
    ELSE LET txn_id == db.seq_txn + 1
             header == [db EXCEPT !.transactions = @ \cup {[id |-> txn_id, date |-> date_str]},
                                  !.seq_txn = txn_id]
         IN get_db(db, InsertLines(header, txn_id, ls, 1))

add_transaction(db, date_str, ls) ==
    IF SumAmounts(ls) # 0 THEN Raise(db, "Unbalanced")
    ELSE IF Len(ls) < 2 THEN Raise(db, "TooFewLines")
    ELSE IF PostsToTotal(db, ls) THEN Raise(db, "TotalAccount")
    ELSE IF IsLocked(db, date_str) THEN Raise(db, "Locked")
    ELSE LET txn_id == db.seq_txn + 1
             header == [db EXCEPT !.transactions = @ \cup {[id |-> txn_id, date |-> date_str]},
                                  !.seq_txn = txn_id]
         IN get_db(db, InsertLines(header, txn_id, ls, 1))

(***************************************************************************)
(* update_transaction: balance and the lock of the NEW date are checked;   *)
(* then UPDATE the header, DELETE the lines, INSERT the new lines.         *)
(***************************************************************************)
update_transaction(db, txn_id, date_str, ls) ==
    IF SumAmounts(ls) # 0 THEN Raise(db, "Unbalanced")
    ELSE IF IsLocked(db, date_str) THEN Raise(db, "Locked")
    ELSE LET header == [db EXCEPT
                 !.transactions = {IF t.id = txn_id THEN [t EXCEPT !.date = date_str] ELSE t : t \in @},
                 !.lines = {l \in @ : l.transaction_id # txn_id}]
         IN get_db(db, InsertLines(header, txn_id, ls, 1))

\* DELETE FROM transactions WHERE id=?; the lines go with it (ON DELETE CASCADE).
DeleteTxnRowNoCascade(db, txn_id) ==
    [db EXCEPT !.transactions = {t \in @ : t.id # txn_id}]
DeleteTxnRow(db, txn_id) ==
    [db EXCEPT !.transactions = {t \in @ : t.id # txn_id},
               !.lines = {l \in @ : l.transaction_id # txn_id}]

TxnLocked(db, txn_id) ==
    /\ get_meta(db, "lock_date") # NoLock
    /\ TxnExists(db, txn_id)
    /\ TxnRow(db, txn_id).date <= get_meta(db, "lock_date")

delete_transaction(db, txn_id) ==
    IF TxnLocked(db, txn_id) THEN Raise(db, "Locked")
    ELSE Ok(DeleteTxnRow(db, txn_id), 0)

RECURSIVE BulkDelete(_, _, _, _, _)
BulkDelete(db, txn_ids, i, deleted, skipped) ==
    IF i > Len(txn_ids) THEN Ok(db, <<deleted, skipped>>)
    ELSE IF TxnLocked(db, txn_ids[i])
         THEN BulkDelete(db, txn_ids, i + 1, deleted, skipped + 1)
         ELSE BulkDelete(DeleteTxnRow(db, txn_ids[i]), txn_ids, i + 1, deleted + 1, skipped)

bulk_delete_transactions(db, txn_ids) == get_db(db, BulkDelete(db, txn_ids, 1, 0, 0))

(***************************************************************************)
(* get_account_balance: the raw sum of an account's lines in a date range  *)
(* (None: no limit).  get_trial_balance: the posting accounts with a       *)
(* non-zero raw balance, each in its debit or credit column.               *)
(***************************************************************************)
RECURSIVE SumLines(_)
SumLines(S) ==
    IF S = {} THEN 0
    ELSE LET l == CHOOSE x \in S : TRUE IN l.amount + SumLines(S \ {l})

InRange(db, l, date_from, date_to) ==
    \E t \in db.transactions :
        /\ t.id = l.transaction_id
        /\ (date_from = NoDate \/ t.date >= date_from)
        /\ (date_to = NoDate \/ t.date <= date_to)

get_account_balance(db, account_id, date_from, date_to) ==
    SumLines({l \in db.lines : l.account_id = account_id /\ InRange(db, l, date_from, date_to)})

Abs(x) == IF x < 0 THEN 0 - x ELSE x

TrialRow(db, id, as_of_date) ==
    LET acct == db.accounts[id]
        raw == get_account_balance(db, id, NoDate, as_of_date)
        sign == IF acct.normal_balance = "D" THEN 1 ELSE 0 - 1
        bal == raw * sign
    IN [id |-> id, balance |-> bal,
        debit |-> IF bal > 0 /\ acct.normal_balance = "D" THEN bal
                  ELSE IF bal < 0 /\ acct.normal_balance = "C" THEN Abs(bal) ELSE 0,
        credit |-> IF bal > 0 /\ acct.normal_balance = "C" THEN bal
                   ELSE IF bal < 0 /\ acct.normal_balance = "D" THEN Abs(bal) ELSE 0]

RECURSIVE TrialTotals(_, _, _)
TrialTotals(db, id, as_of_date) ==
    IF id > Len(db.accounts) THEN [total_debit |-> 0, total_credit |-> 0]
    ELSE LET rest == TrialTotals(db, id + 1, as_of_date)
             row == TrialRow(db, id, as_of_date)
         IN IF db.accounts[id].account_type # "posting" \/ row.balance = 0 THEN rest
            ELSE [total_debit |-> row.debit + rest.total_debit,
                  total_credit |-> row.credit + rest.total_credit]

get_trial_balance(db, as_of_date) == TrialTotals(db, 1, as_of_date)

(***************************************************************************)
(* Reports and report items.  A NULL account_id is NoAccount; the          *)
(* acct_name and normal_balance of the LEFT JOIN are then None, written    *)
(* as the empty string like an empty total_to slot.                        *)
(***************************************************************************)
NoAccount == 0
NoPosition == -1
NoName == ""
TotalToSlots == 6
NoTotalTo == [k \in 1..TotalToSlots |-> NoName]

ItemTypes == {"account", "total", "label", "separator"}

add_report(db, name) ==
    Ok([db EXCEPT !.reports = Append(@, name)], Len(db.reports) + 1)

ItemBefore(x, y) ==
    x.position < y.position \/ (x.position = y.position /\ x.id <= y.id)

\* ORDER BY position, id: the item that has i - 1 items before it comes i-th.
PlaceOf(S, it) == Cardinality({y \in S : ItemBefore(y, it)})
SortItems(S) == [i \in 1..Cardinality(S) |-> CHOOSE x \in S : PlaceOf(S, x) = i]

\* _resequence: positions 10, 20, 30, ... in (position, id) order.
resequence(db, report_id) ==
    LET mine == {it \in db.report_items : it.report_id = report_id}
    IN [db EXCEPT !.report_items =
            {it \in @ : it.report_id # report_id}
            \cup {[it EXCEPT !.position = PlaceOf(mine, it) * 10] : it \in mine}]

MaxPosition(db, report_id) ==
    LET ps == {it.position : it \in {x \in db.report_items : x.report_id = report_id}}
    IN IF ps = {} THEN 0 ELSE CHOOSE m \in ps : \A q \in ps : q <= m

add_report_item(db, report_id, item_type, account_id, position, total_to) ==
    IF \/ report_id \notin 1..Len(db.reports)
       \/ (account_id # NoAccount /\ ~AccountExists(db, account_id))
       \/ item_type \notin ItemTypes
    THEN Raise(db, "IntegrityError")
    ELSE LET new_id == db.seq_item + 1
             pos == IF position = NoPosition THEN MaxPosition(db, report_id) + 10 ELSE position
             row == [id |-> new_id, report_id |-> report_id, position |-> pos,
                     item_type |-> item_type, account_id |-> account_id,
                     total_to |-> total_to]
         IN Ok(resequence([db EXCEPT !.report_items = @ \cup {row}, !.seq_item = new_id],
                          report_id),
               new_id)

\* The columns of accounts that get_report_items and get_all_report_items join in.
acct_name(db, it) ==
    IF it.account_id = NoAccount THEN NoName ELSE db.accounts[it.account_id].name
normal_balance(db, it) ==
    IF it.account_id = NoAccount THEN NoName ELSE db.accounts[it.account_id].normal_balance
account_type(db, it) ==
    IF it.account_id = NoAccount THEN NoName ELSE db.accounts[it.account_id].account_type

get_report_items(db, report_id) ==
    SortItems({it \in db.report_items : it.report_id = report_id})

get_all_report_items(db) == db.report_items

\* update_report_item(item_id, item_type=...): UPDATE report_items SET item_type=?
\* WHERE id=?; the CHECK on item_type fails the statement, an unknown id updates no row.
update_report_item(db, item_id, item_type) ==
    IF item_type \notin ItemTypes /\ \E it \in db.report_items : it.id = item_id
    THEN Raise(db, "IntegrityError")
    ELSE Ok([db EXCEPT !.report_items =
                {IF it.id = item_id THEN [it EXCEPT !.item_type = item_type] ELSE it : it \in @}],
            0)

(***************************************************************************)
(* compute_report_column.  A Python dict is a function on its keys.        *)
(***************************************************************************)
MaxPasses == 10
WiredSlots == 5

Get(m, k, default) == IF k \in DOMAIN m THEN m[k] ELSE default

RECURSIVE SumOver(_, _)
SumOver(S, f) ==
    IF S = {} THEN 0
    ELSE LET x == CHOOSE y \in S : TRUE IN f[x] + SumOver(S \ {x}, f)

\* Step 1: the raw balance of every posting account some item names.
raw_balances(db, date_from, date_to) ==
    LET posting == {it \in get_all_report_items(db) :
                        it.account_id # NoAccount /\ account_type(db, it) = "posting"}
    IN [name \in {acct_name(db, it) : it \in posting} |->
            LET it == CHOOSE x \in posting : acct_name(db, x) = name
            IN get_account_balance(db, it.account_id, date_from, date_to)]

\* Step 2: name -> the targets of total_to_1 .. total_to_5 of all its items.
total_to_targets_first_occurrence(db) ==
    LET named == {it \in get_all_report_items(db) : acct_name(db, it) # NoName}
        first(name) == CHOOSE it \in named :
                           /\ acct_name(db, it) = name
                           /\ \A x \in named : acct_name(db, x) = name => it.id <= x.id
    IN [name \in {acct_name(db, it) : it \in named} |->
            {first(name).total_to[k] : k \in 1..WiredSlots} \ {NoName}]
total_to_targets_six_slots(db) ==
    LET named == {it \in get_all_report_items(db) : acct_name(db, it) # NoName}
    IN [name \in {acct_name(db, it) : it \in named} |->
            {it.total_to[k] : it \in {x \in named : acct_name(db, x) = name}, k \in 1..TotalToSlots}
            \ {NoName}]
total_to_targets(db) ==
    LET named == {it \in get_all_report_items(db) : acct_name(db, it) # NoName}
    IN [name \in {acct_name(db, it) : it \in named} |->
            {it.total_to[k] : it \in {x \in named : acct_name(db, x) = name}, k \in 1..WiredSlots}
            \ {NoName}]

\* Step 3, one pass: every name with targets adds raw + prev into each target.
AccumulatePass(acct_tt, raw_bal, prev) ==
    LET sources == {n \in DOMAIN acct_tt : acct_tt[n] # {}}
        val == [n \in sources |-> Get(raw_bal, n, 0) + Get(prev, n, 0)]
    IN [t \in UNION {acct_tt[n] : n \in sources} |->
            SumOver({n \in sources : t \in acct_tt[n]}, val)]

RECURSIVE AccumulateUpTo(_, _, _, _)
AccumulateUpTo(acct_tt, raw_bal, prev, passes_left) ==
    IF passes_left = 0 THEN prev
    ELSE LET accumulated == AccumulatePass(acct_tt, raw_bal, prev)
         IN IF accumulated = prev THEN accumulated
            ELSE AccumulateUpTo(acct_tt, raw_bal, accumulated, passes_left - 1)
AccumulateNinePasses(acct_tt, raw_bal, prev, passes_left) ==
    AccumulateUpTo(acct_tt, raw_bal, prev, passes_left - 1)

\* Step 3: for _pass in range(10), until a pass changes nothing.
AccumulateOnePass(acct_tt, raw_bal, prev, passes_left) ==
    AccumulatePass(acct_tt, raw_bal, prev)
RECURSIVE Accumulate(_, _, _, _)
Accumulate(acct_tt, raw_bal, prev, passes_left) ==
    IF passes_left = 0 THEN prev
    ELSE LET accumulated == AccumulatePass(acct_tt, raw_bal, prev)
         IN IF accumulated = prev THEN accumulated
            ELSE Accumulate(acct_tt, raw_bal, accumulated, passes_left - 1)

\* The number of times the body of "for _pass in range(10)" runs.
RECURSIVE PassesRun(_, _, _, _)
PassesRun(acct_tt, raw_bal, prev, passes_left) ==
    IF passes_left = 0 THEN 0
    ELSE LET accumulated == AccumulatePass(acct_tt, raw_bal, prev)
         IN IF accumulated = prev THEN 1
            ELSE 1 + PassesRun(acct_tt, raw_bal, accumulated, passes_left - 1)

\* Step 4: raw + accumulated, for every name that has either.
MergeRawOnly(raw_bal, accumulated) ==
    [name \in DOMAIN raw_bal \cup DOMAIN accumulated |-> Get(raw_bal, name, 0)]
Merge(raw_bal, accumulated) ==
    [name \in DOMAIN raw_bal \cup DOMAIN accumulated |->
        Get(raw_bal, name, 0) + Get(accumulated, name, 0)]

merged_values(db, date_from, date_to) ==
    LET raw_bal == raw_balances(db, date_from, date_to)
    IN Merge(raw_bal, Accumulate(total_to_targets(db), raw_bal, [t \in {} |-> 0], MaxPasses))

\* Step 5: one (item, amount) pair per item of the report, in position order.
compute_report_column(db, report_id, date_from, date_to) ==
    LET display_items == get_report_items(db, report_id)
        merged == merged_values(db, date_from, date_to)
    IN [i \in 1..Len(display_items) |->
            LET it == display_items[i]
                name == acct_name(db, it)
                raw == IF name # NoName THEN Get(merged, name, 0) ELSE 0
                nb == IF name # NoName /\ normal_balance(db, it) # NoName
                      THEN normal_balance(db, it) ELSE "D"
            IN [item |-> it.id, acct_name |-> name,
                amount |-> raw * (IF nb = "D" THEN 1 ELSE 0 - 1)]]

\* delete_report_item after the item was found: refused when a total_to slot of
\* any item names the item's account, or when the item is an account item
\* whose posting account has lines; otherwise DELETE FROM report_items WHERE id=?.
DeleteItemFiveSlots(db, item) ==
    IF /\ acct_name(db, item) # NoName
       /\ \E x \in db.report_items, k \in 1..WiredSlots : x.total_to[k] = acct_name(db, item)
    THEN Raise(db, "TotalsTo")
    ELSE IF /\ item.account_id # NoAccount
            /\ item.item_type = "account"
            /\ account_type(db, item) = "posting"
            /\ \E l \in db.lines : l.account_id = item.account_id
    THEN Raise(db, "HasLines")
    ELSE Ok([db EXCEPT !.report_items = @ \ {item}], 0)
DeleteItem(db, item) ==
    IF /\ acct_name(db, item) # NoName
       /\ \E x \in db.report_items, k \in 1..TotalToSlots : x.total_to[k] = acct_name(db, item)
    THEN Raise(db, "TotalsTo")
    ELSE IF /\ item.account_id # NoAccount
            /\ item.item_type = "account"
            /\ account_type(db, item) = "posting"
            /\ \E l \in db.lines : l.account_id = item.account_id
    THEN Raise(db, "HasLines")
    ELSE Ok([db EXCEPT !.report_items = @ \ {item}], 0)

delete_report_item(db, item_id) ==
    IF \A it \in db.report_items : it.id # item_id
    THEN Raise(db, "Item not found")
    ELSE get_db(db, DeleteItem(db, CHOOSE it \in db.report_items : it.id = item_id))

(***************************************************************************)
(* normalize_date: the date strings a caller passes are a day written in   *)
(* one of the accepted formats, the empty string, or text that is no date. *)
(* The result is the day in YYYY-MM-DD form, or None.                      *)
(***************************************************************************)
RawDates ==
    [fmt : {"iso", "ofx"}, day : Dates] \cup {[fmt |-> "empty", day |-> 0], [fmt |-> "bad", day |-> 0]}

normalize_date(s) == IF s.fmt \in {"iso", "ofx"} THEN s.day ELSE NoDate

(***************************************************************************)
(* set_lock_date (mcp_server.py), do_lock (cli.py): show or set.           *)
(***************************************************************************)
set_lock_date(db, lock_date) ==
    IF lock_date.fmt # "empty"
    THEN IF normalize_date(lock_date) = NoDate THEN Raise(db, "InvalidDate")
         ELSE Ok(set_meta(db, "lock_date", normalize_date(lock_date)), normalize_date(lock_date))
    ELSE Ok(db, get_meta(db, "lock_date"))

(***************************************************************************)
(* Text.  Report names, descriptions and keywords are sequences of         *)
(* characters; account names are strings, and the strings the model uses   *)
(* that contain an upper-case letter are listed with their lower-case form.*)
(***************************************************************************)
UpperLetters == <<"A", "B", "C", "D", "E", "F", "G", "H", "I", "J", "K", "L", "M",
                  "N", "O", "P", "Q", "R", "S", "T", "U", "V", "W", "X", "Y", "Z">>
LowerLetters == <<"a", "b", "c", "d", "e", "f", "g", "h", "i", "j", "k", "l", "m",
                  "n", "o", "p", "q", "r", "s", "t", "u", "v", "w", "x", "y", "z">>

LowerChar(c) ==
    IF \E i \in 1..Len(UpperLetters) : UpperLetters[i] = c
    THEN LowerLetters[CHOOSE i \in 1..Len(UpperLetters) : UpperLetters[i] = c]
    ELSE c

LowerText(t) == [i \in 1..Len(t) |-> LowerChar(t[i])]

\* Python's "needle in text": needle occurs as a contiguous run of text.
Contains(text, needle) ==
    \E i \in 1..(Len(text) - Len(needle) + 1) :
        SubSeq(text, i, i + Len(needle) - 1) = needle

LowerNames ==
    [n \in {"A", "B", "C", "T", "X", "RE", "RE.OPEN", "RE.OFS", "BANK", "REV",
            "EX.SUSP", "GST.IN", "GST.OUT"} |->
        CASE n = "A" -> "a" [] n = "B" -> "b" [] n = "C" -> "c" [] n = "T" -> "t"
          [] n = "X" -> "x" [] n = "RE" -> "re" [] n = "RE.OPEN" -> "re.open"
          [] n = "RE.OFS" -> "re.ofs" [] n = "BANK" -> "bank" [] n = "REV" -> "rev"
          [] n = "EX.SUSP" -> "ex.susp" [] n = "GST.IN" -> "gst.in"
          [] n = "GST.OUT" -> "gst.out"]
LowerName(n) == IF n \in DOMAIN LowerNames THEN LowerNames[n] ELSE n

NoRow == 0

\* SELECT ... WHERE name=? COLLATE NOCASE, fetchone: the first row by id.
get_account_by_name(db, name) ==
    LET hits == {i \in 1..Len(db.accounts) : LowerName(db.accounts[i].name) = LowerName(name)}
    IN IF hits = {} THEN NoRow ELSE CHOOSE i \in hits : \A j \in hits : i <= j

\* SELECT ... WHERE name LIKE '%name%' COLLATE NOCASE ORDER BY id LIMIT 1
find_report_by_name(db, name) ==
    LET hits == {i \in 1..Len(db.reports) : Contains(LowerText(db.reports[i]), LowerText(name))}
    IN IF hits = {} THEN NoRow ELSE CHOOSE i \in hits : \A j \in hits : i <= j

(***************************************************************************)
(* year_end (mcp_server.py), do_ye (cli.py).  The calendar of the model    *)
(* has DaysPerYear days in a year; the day after a date is the next number.*)
(***************************************************************************)
DaysPerYear == 2
YearOf(day) == ((day - 1) \div DaysPerYear) + 1

year_end_no_lock_check(db, new_fy_start, lines_) ==
    add_transaction(set_meta(db, "lock_date", NoLock), new_fy_start, lines_)
year_end_posting(db, new_fy_start, lines_) == add_transaction(db, new_fy_start, lines_)

\* set_meta("lock_date", ye_date), set_meta("fiscal_year", ...) once the entry is posted;
\* the exception of add_transaction leaves year_end before them.
YearEndFiscalYearOnly(db, ye_date, posted) ==
    IF posted.err # "ok" THEN Raise(db, posted.err)
    ELSE Ok(set_meta(posted.db, "fiscal_year", YearOf(ye_date + 1)), posted.ret)

YearEndLock(db, ye_date, posted) ==
    IF posted.err # "ok" THEN Raise(db, posted.err)
    ELSE Ok(set_meta(set_meta(posted.db, "lock_date", ye_date),
                     "fiscal_year", YearOf(ye_date + 1)),
            posted.ret)

\* The closing entry, dated the first day of the new fiscal year.
YearEndClose(db, ye_date, raw_re, re_open, re_ofs_acct) ==
    YearEndLock(db, ye_date,
                year_end_posting(db, ye_date + 1,
                                 <<[account_id |-> re_ofs_acct, amount |-> 0 - raw_re],
                                   [account_id |-> re_open, amount |-> raw_re]>>))

\* The new RE.OFS account is shown on the RE.OFS report, if there is one.
WithOfsItem(db, re_ofs_id, ofs_report) ==
    IF ofs_report = NoRow THEN db
    ELSE add_report_item(db, ofs_report, "account", re_ofs_id, NoPosition,
                         [NoTotalTo EXCEPT ![1] = "RE"]).db

YearEndCreated(created, ye_date, raw_re, re_open) ==
    IF created.err # "ok" THEN created
    ELSE YearEndClose(WithOfsItem(created.db, created.ret,
                                  find_report_by_name(created.db, <<"R", "E", ".", "O", "F", "S">>)),
                      ye_date, raw_re, re_open, created.ret)

YearEndRoll(db, ye_date, raw_re, re_open, re_ofs_acct) ==
    IF re_open = NoRow THEN Raise(db, "NoREOpen")
    ELSE IF re_ofs_acct = NoRow
    THEN YearEndCreated(add_account(db, [name |-> "RE.OFS", normal_balance |-> "D",
                                         account_type |-> "posting"]),
                        ye_date, raw_re, re_open)
    ELSE YearEndClose(db, ye_date, raw_re, re_open, re_ofs_acct)

\* The displayed RE balance back to its raw sign.
RawRE(db, re_balance, re_acct) ==
    IF re_acct # NoRow
    THEN re_balance * (IF db.accounts[re_acct].normal_balance = "D" THEN 1 ELSE 0 - 1)
    ELSE 0 - re_balance

\* The first row of the column whose account is named RE, NoRow if none.
FirstRE(data) ==
    IF \E i \in 1..Len(data) : data[i].acct_name = "RE"
    THEN CHOOSE i \in 1..Len(data) :
            data[i].acct_name = "RE" /\ \A j \in 1..(i - 1) : data[j].acct_name # "RE"
    ELSE NoRow

YearEndBalance(db, ye_date, data, re_row) ==
    IF re_row = NoRow THEN Raise(db, "NoRETotal")
    ELSE IF data[re_row].amount = 0 THEN Ok(db, NoRow)
    ELSE YearEndRoll(db, ye_date,
                     RawRE(db, data[re_row].amount, get_account_by_name(db, "RE")),
                     get_account_by_name(db, "RE.OPEN"),
                     get_account_by_name(db, "RE.OFS"))

YearEndColumn(db, ye_date, data) == YearEndBalance(db, ye_date, data, FirstRE(data))

YearEndReport(db, ye_date, bs_report) ==
    IF bs_report = NoRow THEN Raise(db, "NoBSReport")
    ELSE YearEndColumn(db, ye_date, compute_report_column(db, bs_report, NoDate, ye_date))

YearEndDate(db, ye_date) ==
    IF ye_date = NoDate THEN Raise(db, "InvalidDate")
    ELSE YearEndReport(db, ye_date, find_report_by_name(db, <<"B", "S">>))

year_end(db, raw_date) == YearEndDate(db, normalize_date(raw_date))

(***************************************************************************)
(* Import rules, tax codes and import_rows.                                *)
(***************************************************************************)
NoText == <<>>
NoTaxCode == ""
MaxErrors == 20

\* The binary collation on the characters used: space, dot, A-Z, a-z.
CharRank(c) ==
    IF c = " " THEN 1
    ELSE IF c = "." THEN 2
    ELSE IF \E i \in 1..Len(UpperLetters) : UpperLetters[i] = c
         THEN 2 + (CHOOSE i \in 1..Len(UpperLetters) : UpperLetters[i] = c)
    ELSE IF \E i \in 1..Len(LowerLetters) : LowerLetters[i] = c
         THEN 2 + Len(UpperLetters) + (CHOOSE i \in 1..Len(LowerLetters) : LowerLetters[i] = c)
    ELSE 0

RECURSIVE TextLess(_, _)
TextLess(a, b) ==
    IF b = <<>> THEN FALSE
    ELSE IF a = <<>> THEN TRUE
    ELSE IF CharRank(a[1]) # CharRank(b[1]) THEN CharRank(a[1]) < CharRank(b[1])
    ELSE TextLess(Tail(a), Tail(b))

\* ORDER BY priority DESC, keyword; rows equal in both come in id order.
RuleBeforeByKeywordOnly(x, y) ==
    \/ TextLess(x.keyword, y.keyword)
    \/ x.keyword = y.keyword /\ x.id <= y.id
RuleBefore(x, y) ==
    \/ x.priority > y.priority
    \/ x.priority = y.priority /\ TextLess(x.keyword, y.keyword)
    \/ x.priority = y.priority /\ x.keyword = y.keyword /\ x.id <= y.id

RECURSIVE SortRules(_)
SortRules(S) ==
    IF S = {} THEN <<>>
    ELSE LET first == CHOOSE x \in S : \A y \in S : RuleBefore(x, y)
         IN <<first>> \o SortRules(S \ {first})

get_import_rules(db) == SortRules(db.import_rules)

\* save_import_rule without a rule id: INSERT of a new row.
save_import_rule(db, keyword, account_name, tax_code, priority) ==
    LET ids == {x.id : x \in db.import_rules}
        new_id == IF ids = {} THEN 1 ELSE (CHOOSE m \in ids : \A i \in ids : i <= m) + 1
    IN Ok([db EXCEPT !.import_rules = @ \cup {[id |-> new_id, keyword |-> keyword,
                                               account_name |-> account_name,
                                               tax_code |-> tax_code,
                                               priority |-> priority]}],
          new_id)

get_tax_code(db, code_id) == {tc \in db.tax_codes : tc.id = code_id}

\* INSERT OR REPLACE INTO tax_codes
save_tax_code(db, code_id, rate_percent, collected_account, paid_account) ==
    Ok([db EXCEPT !.tax_codes = {tc \in @ : tc.id # code_id}
                                \cup {[id |-> code_id, rate_percent |-> rate_percent,
                                       collected_account |-> collected_account,
                                       paid_account |-> paid_account]}],
       code_id)

\* Python 3 round() of num / den: to the nearest integer, a tie to the even one.
RoundDown(num, den) == num \div den
RoundHalfEven(num, den) ==
    LET q == num \div den
        r == num % den
    IN IF 2 * r < den THEN q
       ELSE IF 2 * r > den THEN q + 1
       ELSE IF q % 2 = 0 THEN q ELSE q + 1

NoTax == [net |-> 0, tax |-> 0, tax_acct |-> NoName]

\* The split of a tax-inclusive amount: tax = round(|amount| * rate / (100 + rate)).
TaxSplit(tc, amount_cents, tax_cents) ==
    [net |-> Abs(amount_cents) - tax_cents, tax |-> tax_cents,
     tax_acct |-> IF amount_cents > 0
                  THEN (IF tc.collected_account # NoName THEN tc.collected_account
                        ELSE "GST.OUT")
                  ELSE (IF tc.paid_account # NoName THEN tc.paid_account ELSE "GST.IN")]

\* The rule that matched, with the rows of tax_codes that carry its tax code.
RuleResult(matched_rule, tcs, amount_cents) ==
    IF /\ matched_rule.tax_code # NoTaxCode
       /\ tcs # {}
       /\ (CHOOSE tc \in tcs : TRUE).rate_percent > 0
    THEN [account_name |-> matched_rule.account_name, tax_code |-> matched_rule.tax_code,
          tax_info |-> TaxSplit(CHOOSE tc \in tcs : TRUE, amount_cents,
                                RoundHalfEven(Abs(amount_cents)
                                                * (CHOOSE tc \in tcs : TRUE).rate_percent,
                                              100 + (CHOOSE tc \in tcs : TRUE).rate_percent))]
    ELSE [account_name |-> matched_rule.account_name, tax_code |-> matched_rule.tax_code,
          tax_info |-> NoTax]

RuleFound(db, matched_rule, amount_cents) ==
    RuleResult(matched_rule, get_tax_code(db, matched_rule.tax_code), amount_cents)

\* The first rule, in priority order, whose keyword occurs in the description.
FirstMatch(db, rules, desc_lower, amount_cents) ==
    IF \A i \in 1..Len(rules) : ~Contains(desc_lower, LowerText(rules[i].keyword))
    THEN [account_name |-> "EX.SUSP", tax_code |-> NoTaxCode, tax_info |-> NoTax]
    ELSE RuleFound(db, rules[CHOOSE i \in 1..Len(rules) :
                                /\ Contains(desc_lower, LowerText(rules[i].keyword))
                                /\ \A j \in 1..(i - 1) :
                                       ~Contains(desc_lower, LowerText(rules[j].keyword))],
                   amount_cents)

apply_rules(db, description, amount_cents) ==
    FirstMatch(db, get_import_rules(db), LowerText(description), amount_cents)

add_simple_transaction(db, date_str, debit_acct_id, credit_acct_id, amount_cents) ==
    add_transaction(db, date_str, <<[account_id |-> debit_acct_id, amount |-> amount_cents],
                                    [account_id |-> credit_acct_id, amount |-> 0 - amount_cents]>>)

\* The posting of one row that passed the checks: the try block of import_rows.
PostRow(db, bank_account_id, row_date, amount_cents, target_acct, tax_info) ==
    LET tax_acct == get_account_by_name(db, tax_info.tax_acct)
        net == tax_info.net
        tax == tax_info.tax
    IN IF tax_info.tax # 0
       THEN IF tax_acct = NoRow
            THEN add_simple_transaction(db, row_date,
                     IF amount_cents < 0 THEN target_acct ELSE bank_account_id,
                     IF amount_cents < 0 THEN bank_account_id ELSE target_acct,
                     Abs(amount_cents))
            ELSE IF amount_cents < 0
            THEN add_transaction(db, row_date,
                     <<[account_id |-> target_acct, amount |-> net],
                       [account_id |-> tax_acct, amount |-> tax],
                       [account_id |-> bank_account_id, amount |-> 0 - (net + tax)]>>)
            ELSE add_transaction(db, row_date,
                     <<[account_id |-> bank_account_id, amount |-> net + tax],
                       [account_id |-> target_acct, amount |-> 0 - net],
                       [account_id |-> tax_acct, amount |-> 0 - tax]>>)
       ELSE IF amount_cents < 0
       THEN add_simple_transaction(db, row_date, target_acct, bank_account_id, Abs(amount_cents))
       ELSE add_simple_transaction(db, row_date, bank_account_id, target_acct, Abs(amount_cents))

\* The counts and errors after a row was skipped for the given reason.
Skip(res, row_num, reason) ==
    [res EXCEPT !.skipped = @ + 1,
                !.errors = Append(@, [row |-> row_num, reason |-> reason])]

\* After the try block: posted counts, a ValueError is a skipped row with
\* its message, any other exception leaves import_rows.
RowOutcome(posted, res, row_num, suspense) ==
    IF posted.err = "ok"
    THEN Ok(posted.db, [res EXCEPT !.posted = @ + 1, !.to_suspense = @ + suspense])
    ELSE IF posted.err = "IntegrityError"
    THEN Raise(posted.db, "IntegrityError")
    ELSE Ok(posted.db, [Skip(res, row_num, posted.err) EXCEPT !.to_suspense = @ + suspense])

\* A row that passed the checks on its own fields: look up the rule's account and post.
RowWithRule(db, bank_account_id, row, row_date, row_num, res, rule, target_acct) ==
    IF target_acct = NoRow THEN Ok(db, Skip(res, row_num, "Account not found"))
    ELSE RowOutcome(PostRow(db, bank_account_id, row_date, row.amount_cents, target_acct,
                            rule.tax_info),
                    res, row_num, IF rule.account_name = "EX.SUSP" THEN 1 ELSE 0)

RowMatched(db, bank_account_id, row, row_date, row_num, res, rule) ==
    RowWithRule(db, bank_account_id, row, row_date, row_num, res, rule,
                get_account_by_name(db, rule.account_name))

\* One turn of the loop: res is the counts and errors so far.
RowChecked(db, bank_account_id, row, row_date, lock, row_num, res) ==
    IF row.description = NoText THEN Ok(db, Skip(res, row_num, "Missing description"))
    ELSE IF row_date = NoDate THEN Ok(db, Skip(res, row_num, "Bad date"))
    ELSE IF lock # NoLock /\ row_date <= lock THEN Ok(db, Skip(res, row_num, "Before lock date"))
    ELSE IF row.amount_cents = 0 THEN Ok(db, Skip(res, row_num, "Zero amount"))
    ELSE RowMatched(db, bank_account_id, row, row_date, row_num, res,
                    apply_rules(db, row.description, row.amount_cents))

ImportRow(db, bank_account_id, row, lock, row_num, res) ==
    RowChecked(db, bank_account_id, row, normalize_date(row.date), lock, row_num, res)

RECURSIVE ImportLoop(_, _, _, _, _, _)
ImportStopAtSkippedRow(r, bank_account_id, rows, lock, row_num) ==
    IF r.err # "ok" \/ r.ret.skipped > 0 THEN r
    ELSE ImportLoop(r.db, bank_account_id, rows, lock, row_num + 1, r.ret)

\* The exception of a row ends the loop; otherwise on to the next row.
ImportRest(r, bank_account_id, rows, lock, row_num) ==
    IF r.err # "ok" THEN r
    ELSE ImportLoop(r.db, bank_account_id, rows, lock, row_num + 1, r.ret)

ImportLoop(db, bank_account_id, rows, lock, row_num, res) ==
    IF row_num > Len(rows) THEN Ok(db, res)
    ELSE ImportRest(ImportRow(db, bank_account_id, rows[row_num], lock, row_num, res),
                    bank_account_id, rows, lock, row_num)

\* errors[:20]
FirstErrors(r) ==
    IF r.err # "ok" THEN r
    ELSE Ok(r.db, [r.ret EXCEPT !.errors =
                     IF Len(@) > MaxErrors THEN SubSeq(@, 1, MaxErrors) ELSE @])

import_rows(db, bank_account_id, rows) ==
    FirstErrors(ImportLoop(db, bank_account_id, rows, get_meta(db, "lock_date"), 1,
                           [rows_processed |-> Len(rows), posted |-> 0, skipped |-> 0,
                            to_suspense |-> 0, errors |-> <<>>]))

(***************************************************************************)
(* get_ledger, toggle_reconcile, toggle_doc_on_file.  The id of a line is  *)
(* the pair of its transaction id and its sort order.                      *)
(***************************************************************************)
\* ORDER BY t.date, t.id, l.sort_order
LedgerBefore(db, x, y) ==
    LET dx == TxnRow(db, x.transaction_id).date
        dy == TxnRow(db, y.transaction_id).date
    IN \/ dx < dy
       \/ dx = dy /\ x.transaction_id < y.transaction_id
       \/ dx = dy /\ x.transaction_id = y.transaction_id /\ x.sort_order <= y.sort_order

RECURSIVE SortLedger(_, _)
SortLedger(db, S) ==
    IF S = {} THEN <<>>
    ELSE LET first == CHOOSE x \in S : \A y \in S : LedgerBefore(db, x, y)
         IN <<first>> \o SortLedger(db, S \ {first})

\* The loop over the rows: balance += display_amount, one entry per row.
RECURSIVE LedgerEntries(_, _, _, _, _)
LedgerEntries(db, rows, sign, i, balance) ==
    IF i > Len(rows) THEN <<>>
    ELSE LET display_amount == rows[i].amount * sign
         IN <<[txn_id |-> rows[i].transaction_id, line_id |-> <<rows[i].transaction_id,
                                                               rows[i].sort_order>>,
               date |-> TxnRow(db, rows[i].transaction_id).date,
               amount |-> display_amount, raw_amount |-> rows[i].amount,
               running_balance |-> balance + display_amount,
               reconciled |-> rows[i].reconciled, doc_on_file |-> rows[i].doc_on_file]>>
            \o LedgerEntries(db, rows, sign, i + 1, balance + display_amount)

LedgerEntriesNoCarry(db, rows, sign, i, balance) ==
    [k \in 1..Len(rows) |->
        [txn_id |-> rows[k].transaction_id,
         line_id |-> <<rows[k].transaction_id, rows[k].sort_order>>,
         date |-> TxnRow(db, rows[k].transaction_id).date,
         amount |-> rows[k].amount * sign, raw_amount |-> rows[k].amount,
         running_balance |-> rows[k].amount * sign,
         reconciled |-> rows[k].reconciled, doc_on_file |-> rows[k].doc_on_file]]
LedgerRows(db, rows, sign, i, balance) == LedgerEntries(db, rows, sign, i, balance)

get_ledger(db, account_id, date_from, date_to) ==
    LedgerRows(db,
               SortLedger(db, {l \in db.lines : l.account_id = account_id
                                                /\ InRange(db, l, date_from, date_to)}),
               IF db.accounts[account_id].normal_balance = "D" THEN 1 ELSE 0 - 1,
               1, 0)

LineById(db, line_id) ==
    {l \in db.lines : l.transaction_id = line_id[1] /\ l.sort_order = line_id[2]}

\* UPDATE lines SET reconciled=? WHERE id=?
SetReconciled(db, row, new_val) ==
    [db EXCEPT !.lines = {IF l = row THEN [l EXCEPT !.reconciled = new_val] ELSE l : l \in @}]

\* UPDATE lines SET doc_on_file=? WHERE transaction_id=?
SetDocOnFileOneLine(db, row, new_val) ==
    [db EXCEPT !.lines = {IF l = row THEN [l EXCEPT !.doc_on_file = new_val] ELSE l : l \in @}]
SetDocOnFile(db, row, new_val) ==
    [db EXCEPT !.lines = {IF l.transaction_id = row.transaction_id
                          THEN [l EXCEPT !.doc_on_file = new_val] ELSE l : l \in @}]

\* An unknown line id: row is None and row['reconciled'] raises TypeError.
ToggleReconcileRow(db, rows) ==
    IF rows = {} THEN Raise(db, "TypeError")
    ELSE Ok(SetReconciled(db, CHOOSE l \in rows : TRUE,
                          IF (CHOOSE l \in rows : TRUE).reconciled # 0 THEN 0 ELSE 1),
            IF (CHOOSE l \in rows : TRUE).reconciled # 0 THEN 0 ELSE 1)

toggle_reconcile(db, line_id) == get_db(db, ToggleReconcileRow(db, LineById(db, line_id)))

ToggleDocRow(db, rows) ==
    IF rows = {} THEN Raise(db, "TypeError")
    ELSE Ok(SetDocOnFile(db, CHOOSE l \in rows : TRUE,
                         IF (CHOOSE l \in rows : TRUE).doc_on_file # 0 THEN 0 ELSE 1),
            IF (CHOOSE l \in rows : TRUE).doc_on_file # 0 THEN 0 ELSE 1)

toggle_doc_on_file(db, line_id) == get_db(db, ToggleDocRow(db, LineById(db, line_id)))

(***************************************************************************)
(* Actions.                                                                *)
(***************************************************************************)
Commit(op, r) ==
    /\ accounts' = r.db.accounts
    /\ transactions' = r.db.transactions
    /\ lines' = r.db.lines
    /\ seq_txn' = r.db.seq_txn
    /\ seq_item' = r.db.seq_item
    /\ reports' = r.db.reports
    /\ report_items' = r.db.report_items
    /\ import_rules' = r.db.import_rules
    /\ tax_codes' = r.db.tax_codes
    /\ meta' = r.db.meta
    /\ last' = [op |-> op, err |-> r.err]
    /\ calls' = calls

\* The AUTOINCREMENT counter is capped: a call that would pass the cap is not made.
CommitUpTo(op, r, cap) == r.db.seq_txn <= cap /\ Commit(op, r)

EmptyDB ==
    [accounts |-> <<>>, transactions |-> {}, lines |-> {}, seq_txn |-> 0,
     seq_item |-> 0, reports |-> <<>>, report_items |-> {},
     import_rules |-> {}, tax_codes |-> {},
     meta |-> [lock_date |-> NoLock, fiscal_year |-> 0]]

\* Books with two posting accounts: init_db, then add_account twice.
Books == add_account(add_account(EmptyDB, AcctA).db, AcctB).db

\* One process at a time unless a specification says otherwise: no call is in flight
\* between two actions.
Writers == {1, 2}
Idle == [pc |-> "idle"]
NoCalls == [p \in Writers |-> Idle]

InitFrom(db) ==
    /\ accounts = db.accounts
    /\ transactions = db.transactions
    /\ lines = db.lines
    /\ seq_txn = db.seq_txn
    /\ seq_item = db.seq_item
    /\ reports = db.reports
    /\ report_items = db.report_items
    /\ import_rules = db.import_rules
    /\ tax_codes = db.tax_codes
    /\ meta = db.meta
    /\ calls = NoCalls

Init ==
    /\ InitFrom(Books)
    /\ last = [op |-> "init_db", err |-> "ok"]

AddAccount ==
    \E a \in AccountInputs :
        Commit("add_account", add_account(DB, a))

\* The AUTOINCREMENT counter is capped: a call that would pass it is not made.
AddTransaction ==
    \E d \in Dates, ls \in LineLists :
        /\ add_transaction(DB, d, ls).db.seq_txn <= MaxTxnId
        /\ Commit("add_transaction", add_transaction(DB, d, ls))

UpdateTransaction ==
    \E id \in TxnIds, d \in Dates, ls \in LineLists :
        Commit("update_transaction", update_transaction(DB, id, d, ls))

DeleteTransaction ==
    \E id \in TxnIds :
        Commit("delete_transaction", delete_transaction(DB, id))

BulkDeleteTransactions ==
    \E ids \in SeqsUpTo(TxnIds, 2) :
        Commit("bulk_delete_transactions", bulk_delete_transactions(DB, ids))

SetLockDate ==
    \E s \in RawDates :
        Commit("set_lock_date", set_lock_date(DB, s))

Next ==
    \/ AddAccount
    \/ SetLockDate
    \/ AddTransaction
    \/ UpdateTransaction
    \/ DeleteTransaction
    \/ BulkDeleteTransactions

Spec == Init /\ [][Next]_vars

(***************************************************************************)
(* The report engine on its own: books with one report whose items are     *)
(* wired by total-to names, balances posted against an offset account      *)
(* that no report shows, and compute_report_column applied to them.        *)
(***************************************************************************)
MaxChainEdges == 11
MaxPosts == 3
ReportNames == <<"A", "B", "C", "D", "E", "F", "G", "H", "I", "J", "K", "L", "M", "N">>
OffsetName == "X"

TotalTo(t1, t2) == [NoTotalTo EXCEPT ![1] = t1, ![2] = t2]
TotalToInputs == {TotalTo(t1, t2) : t1 \in {NoName, "A", "B", "C"}, t2 \in {NoName, "C"}}

PostingAccount(name) == [name |-> name, normal_balance |-> "D", account_type |-> "posting"]
TotalAccount(name) == [name |-> name, normal_balance |-> "D", account_type |-> "total"]

\* Accounts ReportNames[i..n], each with an item on report 1 wired by tt[i].
RECURSIVE WithItems(_, _, _, _, _)
WithItems(db, i, n, kind, tt) ==
    IF i > n THEN db
    ELSE LET a == add_account(db, IF kind[i] = "total" THEN TotalAccount(ReportNames[i])
                                  ELSE PostingAccount(ReportNames[i]))
             it == add_report_item(a.db, 1, "account", a.ret, NoPosition, tt[i])
         IN WithItems(it.db, i + 1, n, kind, tt)

ReportBooks(n, kind, tt) ==
    add_account(WithItems(add_report(EmptyDB, <<"R">>).db, 1, n, kind, tt),
                PostingAccount(OffsetName)).db

\* A -> B -> ... : a chain of total-to's with the given number of edges.
ChainBooks(edges) ==
    ReportBooks(edges + 1, [i \in 1..(edges + 1) |-> "posting"],
                [i \in 1..(edges + 1) |->
                    IF i <= edges THEN TotalTo(ReportNames[i + 1], NoName) ELSE NoTotalTo])

\* A and B posting, C a total account, wired in every way TotalToInputs allows.
GraphBooks(tt) == ReportBooks(3, <<"posting", "posting", "total">>, tt)

ReportScenarios ==
    {GraphBooks(tt) : tt \in [1..3 -> TotalToInputs]}
    \cup {ChainBooks(edges) : edges \in 1..MaxChainEdges}

CommitRet(op, r) ==
    /\ accounts' = r.db.accounts
    /\ transactions' = r.db.transactions
    /\ lines' = r.db.lines
    /\ seq_txn' = r.db.seq_txn
    /\ seq_item' = r.db.seq_item
    /\ reports' = r.db.reports
    /\ report_items' = r.db.report_items
    /\ import_rules' = r.db.import_rules
    /\ tax_codes' = r.db.tax_codes
    /\ meta' = r.db.meta
    /\ last' = [op |-> op, err |-> r.err, ret |-> r.ret]
    /\ calls' = calls

InitReport ==
    /\ \E db \in ReportScenarios : InitFrom(db)
    /\ last = [op |-> "init_db", err |-> "ok", ret |-> 0]

\* Debit 100 to an account of the report, credit the offset account.
PostBalance ==
    \E id \in 1..(Len(accounts) - 1) :
        LET r == add_transaction(DB, 1, <<[account_id |-> id, amount |-> 100],
                                          [account_id |-> Len(accounts), amount |-> 0 - 100]>>)
        IN /\ r.db.seq_txn <= MaxPosts
           /\ CommitRet("add_transaction", r)

ComputeReportColumn ==
    CommitRet("compute_report_column",
              Ok(DB, compute_report_column(DB, 1, NoDate, NoDate)))

NextReport == PostBalance \/ ComputeReportColumn

SpecReport == InitReport /\ [][NextReport]_vars

(***************************************************************************)
(* Books with a balance sheet that carries retained earnings: BANK, REV    *)
(* and RE.OPEN post, REV and RE.OPEN total to RE; the RE.OFS account is    *)
(* there from the start or is left for year_end to create.  On them run    *)
(* the lock date, the year end, posting, editing, deleting and importing.  *)
(***************************************************************************)
MaxTxnIdYE == 2
MaxRows == 1

YEAccounts ==
    <<[name |-> "BANK", normal_balance |-> "D", account_type |-> "posting"],
      [name |-> "REV", normal_balance |-> "C", account_type |-> "posting"],
      [name |-> "RE.OPEN", normal_balance |-> "C", account_type |-> "posting"],
      [name |-> "RE", normal_balance |-> "C", account_type |-> "total"],
      [name |-> "RE.OFS", normal_balance |-> "D", account_type |-> "posting"]>>
YETotalTo == <<NoTotalTo, TotalTo("RE", NoName), TotalTo("RE", NoName), NoTotalTo,
               TotalTo("RE", NoName)>>
YEReportOf == <<1, 1, 1, 1, 2>>

RECURSIVE YEWithAccounts(_, _, _)
YEWithAccounts(db, i, n) ==
    IF i > n THEN db
    ELSE LET a == add_account(db, YEAccounts[i])
             it == add_report_item(a.db, YEReportOf[i], "account", a.ret, NoPosition, YETotalTo[i])
         IN YEWithAccounts(it.db, i + 1, n)

YEBooks(n) ==
    LET bs == add_report(EmptyDB, <<"B", "S">>).db
        ofs == add_report(bs, <<"R", "E", ".", "O", "F", "S">>).db
    IN save_import_rule(YEWithAccounts(ofs, 1, n), <<"f", "e", "e">>, "REV", NoTaxCode, 0).db

InitYE ==
    /\ \E n \in {Len(YEAccounts) - 1, Len(YEAccounts)} : InitFrom(YEBooks(n))
    /\ last = [op |-> "init_db", err |-> "ok"]

YELineLists ==
    {<<[account_id |-> 1, amount |-> 1], [account_id |-> 2, amount |-> 0 - 1]>>,
     <<[account_id |-> 2, amount |-> 1], [account_id |-> 1, amount |-> 0 - 1]>>,
     <<[account_id |-> 1, amount |-> 1], [account_id |-> 2, amount |-> 0]>>,
     <<[account_id |-> 1, amount |-> 1], [account_id |-> 4, amount |-> 0 - 1]>>}
YETxnIds == 1..(MaxTxnIdYE + 1)
RowInputs ==
    [date : RawDates, description : {NoText, <<"F", "e", "e">>, <<"x">>},
     amount_cents : Amounts]

\* The result names the year-end date it was called for and the closing entry.
YearEndResult(r, ye_date) == [r EXCEPT !.ret = [ye_date |-> ye_date, txn_id |-> r.ret]]

YearEnd ==
    \E s \in RawDates :
        /\ year_end(DB, s).db.seq_txn <= MaxTxnIdYE
        /\ CommitRet("year_end", YearEndResult(year_end(DB, s), normalize_date(s)))

YEPost ==
    \E d \in Dates, ls \in YELineLists :
        CommitUpTo("add_transaction", add_transaction(DB, d, ls), MaxTxnIdYE)

YEEdit ==
    \E id \in YETxnIds, d \in Dates, ls \in YELineLists :
        Commit("update_transaction", update_transaction(DB, id, d, ls))

YEDelete ==
    \E id \in YETxnIds :
        Commit("delete_transaction", delete_transaction(DB, id))

YEBulkDelete ==
    \E ids \in SeqsUpTo(YETxnIds, 2) :
        Commit("bulk_delete_transactions", bulk_delete_transactions(DB, ids))

ImportRows ==
    \E rows \in SeqsUpTo(RowInputs, MaxRows) :
        CommitUpTo("import_rows", import_rows(DB, 1, rows), MaxTxnIdYE)

NextYE ==
    \/ SetLockDate
    \/ YearEnd
    \/ YEPost
    \/ YEEdit
    \/ YEDelete
    \/ YEBulkDelete
    \/ ImportRows

SpecYE == InitYE /\ [][NextYE]_vars

(***************************************************************************)
(* Report items across two reports.  A and B post, C is a total account    *)
(* shown on the first report, X takes the other side of every posting.     *)
(* Items for A and B and labels are added to either report, wired through  *)
(* different total-to slots; balances are posted on different days; the    *)
(* column of either report is computed for different date ranges.          *)
(***************************************************************************)
MaxItemId == 3
MaxItemPosts == 2

ItemAccounts ==
    <<[name |-> "A", normal_balance |-> "D", account_type |-> "posting"],
      [name |-> "B", normal_balance |-> "C", account_type |-> "posting"],
      [name |-> "C", normal_balance |-> "D", account_type |-> "total"],
      [name |-> "X", normal_balance |-> "D", account_type |-> "posting"]>>

RECURSIVE WithAccounts(_, _, _)
WithAccounts(db, accts, i) ==
    IF i > Len(accts) THEN db
    ELSE WithAccounts(add_account(db, accts[i]).db, accts, i + 1)

ItemBooks ==
    LET r1 == add_report(EmptyDB, <<"R">>).db
        r2 == add_report(r1, <<"S">>).db
    IN add_report_item(WithAccounts(r2, ItemAccounts, 1), 1, "total", 3, NoPosition,
                       NoTotalTo).db

ItemTotalTo ==
    {NoTotalTo,
     [NoTotalTo EXCEPT ![1] = "C"],
     [NoTotalTo EXCEPT ![WiredSlots] = "C"],
     [NoTotalTo EXCEPT ![TotalToSlots] = "C"],
     [NoTotalTo EXCEPT ![1] = "B", ![2] = "B"]}
DateRanges == {<<NoDate, NoDate>>, <<NoDate, 1>>, <<MaxDate, NoDate>>}

\* A call that only reads: its get_db blocks commit connections that ran SELECTs alone.
ReadTouchingMeta(db, ret) == Ok(set_meta(db, "fiscal_year", get_meta(db, "fiscal_year") + 1), ret)
ReadOnly(db, ret) == Ok(db, ret)

InitItems ==
    /\ InitFrom(ItemBooks)
    /\ last = [op |-> "init_db", err |-> "ok", ret |-> 0]

AddReportItem ==
    \E report_id \in 1..2, account_id \in {NoAccount, 1, 2}, tt \in ItemTotalTo :
        /\ seq_item < MaxItemId
        /\ CommitRet("add_report_item",
                     add_report_item(DB, report_id,
                                     IF account_id = NoAccount THEN "label" ELSE "account",
                                     account_id, NoPosition, tt))

ItemPost ==
    \E id \in {1, 2}, d \in Dates :
        /\ seq_txn < MaxItemPosts
        /\ CommitRet("add_transaction", add_simple_transaction(DB, d, id, 4, 100))

ItemCompute ==
    \E report_id \in 1..2, range \in DateRanges :
        CommitRet("compute_report_column",
                  ReadOnly(DB, [report_id |-> report_id, date_from |-> range[1],
                                date_to |-> range[2],
                                column |-> compute_report_column(DB, report_id, range[1],
                                                                 range[2])]))

NextItems == AddReportItem \/ ItemPost \/ ItemCompute

SpecItems == InitItems /\ [][NextItems]_vars

(***************************************************************************)
(* The ledger of an account and the flags of its lines.  A is Debit-normal *)
(* and B Credit-normal; transactions are posted on either day, in either   *)
(* order, some with two lines on the same account.                         *)
(***************************************************************************)
MaxLedgerTxnId == 2

LedgerBooks ==
    WithAccounts(EmptyDB,
                 <<[name |-> "A", normal_balance |-> "D", account_type |-> "posting"],
                   [name |-> "B", normal_balance |-> "C", account_type |-> "posting"]>>, 1)

LedgerLineLists ==
    {<<[account_id |-> 1, amount |-> 1], [account_id |-> 2, amount |-> 0 - 1]>>,
     <<[account_id |-> 2, amount |-> 2], [account_id |-> 1, amount |-> 0 - 2]>>,
     <<[account_id |-> 1, amount |-> 3], [account_id |-> 2, amount |-> 0 - 2],
       [account_id |-> 2, amount |-> 0 - 1]>>}
LineIds == (1..MaxLedgerTxnId) \X (0..2)

InitLedger ==
    /\ InitFrom(LedgerBooks)
    /\ last = [op |-> "init_db", err |-> "ok", ret |-> 0]

LedgerPost ==
    \E d \in Dates, ls \in LedgerLineLists :
        /\ seq_txn < MaxLedgerTxnId
        /\ CommitRet("add_transaction", add_transaction(DB, d, ls))

ToggleReconcile ==
    \E line_id \in LineIds :
        CommitRet("toggle_reconcile",
                  [toggle_reconcile(DB, line_id) EXCEPT !.ret = <<line_id, @>>])

ToggleDocOnFile ==
    \E line_id \in LineIds :
        CommitRet("toggle_doc_on_file",
                  [toggle_doc_on_file(DB, line_id) EXCEPT !.ret = <<line_id, @>>])

GetLedger ==
    \E account_id \in 1..2, range \in DateRanges :
        CommitRet("get_ledger",
                  ReadOnly(DB, [account_id |-> account_id, date_from |-> range[1],
                                date_to |-> range[2],
                                entries |-> get_ledger(DB, account_id, range[1], range[2])]))

NextLedger == LedgerPost \/ ToggleReconcile \/ ToggleDocOnFile \/ GetLedger

SpecLedger == InitLedger /\ [][NextLedger]_vars

(***************************************************************************)
(* Import.  BANK is the bank account; the rule "fee" sends a row to REV    *)
(* with the 5% tax code G5, the rule "tot" sends it to the total account   *)
(* RE; the GST.OUT account may be missing.  Batches of rows are imported   *)
(* and the lock date is set between them.                                  *)
(***************************************************************************)
MaxImportTxnId == 2
MaxBatch == 2

ImportAccounts ==
    <<[name |-> "BANK", normal_balance |-> "D", account_type |-> "posting"],
      [name |-> "REV", normal_balance |-> "C", account_type |-> "posting"],
      [name |-> "RE", normal_balance |-> "C", account_type |-> "total"],
      [name |-> "GST.IN", normal_balance |-> "D", account_type |-> "posting"],
      [name |-> "GST.OUT", normal_balance |-> "C", account_type |-> "posting"]>>

ImportBooks(n) ==
    LET accts == WithAccounts(EmptyDB, SubSeq(ImportAccounts, 1, n), 1)
        fee == save_import_rule(accts, <<"f", "e", "e">>, "REV", "G5", 0).db
        tot == save_import_rule(fee, <<"t", "o", "t">>, "RE", NoTaxCode, 0).db
    IN save_tax_code(tot, "G5", 5, "GST.OUT", "GST.IN").db

\* Rows good in every field, a row for the total account, and rows with one
\* field bad or all of them bad.
ImportRowInputs ==
    [date : {[fmt |-> "iso", day |-> 1], [fmt |-> "ofx", day |-> MaxDate]},
     description : {<<"F", "e", "e">>},
     amount_cents : {0 - 10500, 10, 11}]
    \cup {[date |-> [fmt |-> "ofx", day |-> MaxDate], description |-> <<"T", "o", "t">>,
           amount_cents |-> 11],
          [date |-> [fmt |-> "iso", day |-> MaxDate], description |-> NoText,
           amount_cents |-> 11],
          [date |-> [fmt |-> "bad", day |-> 0], description |-> <<"F", "e", "e">>,
           amount_cents |-> 11],
          [date |-> [fmt |-> "iso", day |-> MaxDate], description |-> <<"F", "e", "e">>,
           amount_cents |-> 0],
          [date |-> [fmt |-> "empty", day |-> 0], description |-> NoText,
           amount_cents |-> 0]}
ImportBatches == SeqsUpTo(ImportRowInputs, MaxBatch)

InitImport ==
    /\ \E n \in {Len(ImportAccounts) - 1, Len(ImportAccounts)} : InitFrom(ImportBooks(n))
    /\ last = [op |-> "init_db", err |-> "ok"]

ImportBatch ==
    \E rows \in ImportBatches :
        CommitUpTo("import_rows", import_rows(DB, 1, rows), MaxImportTxnId)

NextImport == ImportBatch \/ SetLockDate

SpecImport == InitImport /\ [][NextImport]_vars

(***************************************************************************)
(* The chart of accounts from empty books: add_account with names that     *)
(* differ only in letter case, and the lookup by name.                     *)
(***************************************************************************)
AccountNames == {"A", "a", "B", "b", "T"}

NamedAccounts ==
    {[name |-> n, normal_balance |-> "D", account_type |-> "posting"] : n \in AccountNames}

InitAccounts ==
    /\ InitFrom(EmptyDB)
    /\ last = [op |-> "init_db", err |-> "ok", ret |-> <<>>]

AddNamedAccount ==
    \E a \in NamedAccounts :
        CommitRet("add_account", add_account(DB, a))

\* last.ret is <<name asked for, id of the row returned>>.
GetAccountByName ==
    \E n \in AccountNames :
        CommitRet("get_account_by_name", ReadOnly(DB, <<n, get_account_by_name(DB, n)>>))

NextAccounts == AddNamedAccount \/ GetAccountByName

SpecAccounts == InitAccounts /\ [][NextAccounts]_vars

(***************************************************************************)
(* One report laid out item by item: items appended or inserted at a       *)
(* position, item types changed afterwards, postings, and the column.      *)
(***************************************************************************)
MaxColumnItemId == 3
MaxColumnPosts == 2
InsertPosition == 5

InitColumn ==
    /\ InitFrom(ItemBooks)
    /\ last = [op |-> "init_db", err |-> "ok", ret |-> 0]

ColumnAddItem ==
    \E account_id \in {NoAccount, 1, 2}, position \in {NoPosition, InsertPosition},
       tt \in {NoTotalTo, [NoTotalTo EXCEPT ![1] = "C"], [NoTotalTo EXCEPT ![TotalToSlots] = "C"]} :
        /\ seq_item < MaxColumnItemId
        /\ CommitRet("add_report_item",
                     add_report_item(DB, 1,
                                     IF account_id # NoAccount THEN "account"
                                     ELSE IF position = NoPosition THEN "label" ELSE "separator",
                                     account_id, position,
                                     IF account_id # NoAccount THEN tt ELSE NoTotalTo))

ColumnUpdateItem ==
    \E item_id \in 1..(MaxColumnItemId + 1), item_type \in {"label", "account", "bogus"} :
        CommitRet("update_report_item", update_report_item(DB, item_id, item_type))

\* last.ret is the id asked for.
ColumnDeleteItem ==
    \E item_id \in 1..(MaxColumnItemId + 1) :
        CommitRet("delete_report_item", [delete_report_item(DB, item_id) EXCEPT !.ret = item_id])

ColumnPost ==
    \E id \in {1, 2} :
        /\ seq_txn < MaxColumnPosts
        /\ CommitRet("add_transaction", add_simple_transaction(DB, 1, id, 4, 100))

ColumnCompute ==
    CommitRet("compute_report_column",
              ReadOnly(DB, [report_id |-> 1, date_from |-> NoDate, date_to |-> NoDate,
                            column |-> compute_report_column(DB, 1, NoDate, NoDate)]))

NextColumn ==
    ColumnAddItem \/ ColumnUpdateItem \/ ColumnDeleteItem \/ ColumnPost \/ ColumnCompute

SpecColumn == InitColumn /\ [][NextColumn]_vars

(***************************************************************************)
(* The import rules on their own: rules saved with keywords and            *)
(* priorities that overlap, and apply_rules on descriptions.               *)
(***************************************************************************)
MaxRules == 3
RuleKeywords == {<<"a">>, <<"B">>, <<"a", "b">>}
RulePriorities == {0, 1}
Descriptions == {<<"A", "b">>, <<"x", "b">>, <<"c">>}

InitRules ==
    /\ InitFrom(EmptyDB)
    /\ last = [op |-> "init_db", err |-> "ok", ret |-> 0]

SaveImportRule ==
    \E keyword \in RuleKeywords, account_name \in {"A", "B"}, priority \in RulePriorities :
        /\ Cardinality(import_rules) < MaxRules
        /\ CommitRet("save_import_rule",
                     save_import_rule(DB, keyword, account_name, NoTaxCode, priority))

\* last.ret is the description with what apply_rules returned for it.
ApplyRules ==
    \E description \in Descriptions :
        CommitRet("apply_rules",
                  ReadOnly(DB, [description |-> description,
                                result |-> apply_rules(DB, description, 100)]))

NextRules == SaveImportRule \/ ApplyRules

SpecRules == InitRules /\ [][NextRules]_vars

(***************************************************************************)
(* Imports against a bank account whose rules name a revenue account, the  *)
(* bank account itself, or nothing (suspense), with the suspense account   *)
(* a posting or a total account.  last.ret keeps the rows with the result. *)
(***************************************************************************)
MaxBankTxnId == 2

BankAccounts(susp_type) ==
    <<[name |-> "BANK", normal_balance |-> "D", account_type |-> "posting"],
      [name |-> "REV", normal_balance |-> "C", account_type |-> "posting"],
      [name |-> "EX.SUSP", normal_balance |-> "D", account_type |-> susp_type],
      [name |-> "GST.IN", normal_balance |-> "D", account_type |-> "posting"],
      [name |-> "GST.OUT", normal_balance |-> "C", account_type |-> "posting"]>>

BankBooks(susp_type) ==
    LET accts == WithAccounts(EmptyDB, BankAccounts(susp_type), 1)
        fee == save_import_rule(accts, <<"f", "e", "e">>, "REV", "G5", 0).db
        own == save_import_rule(fee, <<"o", "w", "n">>, "BANK", NoTaxCode, 0).db
        tax == save_import_rule(own, <<"t", "a", "x">>, "BANK", "G5", 0).db
    IN save_tax_code(tax, "G5", 5, "GST.OUT", "GST.IN").db

BankRow(description, amount_cents) ==
    [date |-> [fmt |-> "iso", day |-> 1], description |-> description,
     amount_cents |-> amount_cents]

BankRowInputs ==
    {BankRow(<<"F", "e", "e">>, 0 - 10500), BankRow(<<"F", "e", "e">>, 11),
     BankRow(<<"O", "w", "n">>, 11), BankRow(<<"T", "a", "x">>, 0 - 10500),
     BankRow(<<"Z">>, 11), BankRow(<<"F", "e", "e">>, 0)}

\* One more bad row than the errors list keeps.
ManyBadRows == [i \in 1..(MaxErrors + 1) |-> BankRow(<<"F", "e", "e">>, 0)]
BankBatches == SeqsUpTo(BankRowInputs, MaxBatch) \cup {ManyBadRows}

InitBank ==
    /\ \E susp_type \in {"posting", "total"} : InitFrom(BankBooks(susp_type))
    /\ last = [op |-> "init_db", err |-> "ok"]

BankImportOf(rows, r) ==
    /\ r.db.seq_txn <= MaxBankTxnId
    /\ CommitRet("import_rows", [r EXCEPT !.ret = [rows |-> rows, result |-> @]])

BankImport == \E rows \in BankBatches : BankImportOf(rows, import_rows(DB, 1, rows))

NextBank == BankImport \/ SetLockDate

SpecBank == InitBank /\ [][NextBank]_vars

(***************************************************************************)
(* create_starter_books: the five reports, the chart of accounts and the   *)
(* items of the BS, IS and RE.OFS reports, in the order of the calls.  A   *)
(* row of StarterAccounts is the (name, bal, atype) of one ac(...) call, a *)
(* row of StarterBS, StarterIS and StarterREOFS the (itype, an, tt1) of    *)
(* one bi(...), ii(...) or ri(...) call.  The import rules and tax codes   *)
(* it saves are read by import_rows alone and are left out.  A call that   *)
(* adds nothing (a duplicate name, an unknown report) ends the loop, as    *)
(* the exception it raises ends create_starter_books.                      *)
(***************************************************************************)
MaxStarterTxnId == 1

StarterAccounts ==
    <<<<"CASH", "D", "posting">>, <<"BANK.CHQ", "D", "posting">>,
      <<"BANK.SAV", "D", "posting">>, <<"TOTBANK", "D", "total">>,
      <<"AR", "D", "posting">>, <<"AR.TOT", "D", "total">>, <<"PREPAIDS", "D", "posting">>,
      <<"DEP", "D", "posting">>, <<"CA", "D", "total">>, <<"EQUIP", "D", "posting">>,
      <<"FURN", "D", "posting">>, <<"COMP", "D", "posting">>, <<"TOTFA", "D", "total">>,
      <<"EQUIP.DEP", "C", "posting">>, <<"FURN.DEP", "C", "posting">>,
      <<"COMP.DEP", "C", "posting">>, <<"TOTDEP", "C", "total">>,
      <<"NETFA", "D", "total">>, <<"TA", "D", "total">>, <<"AP", "C", "posting">>,
      <<"AP.CC", "C", "posting">>, <<"GST.OUT", "C", "posting">>,
      <<"GST.IN", "D", "posting">>, <<"GST.REMIT", "C", "posting">>,
      <<"GST.PAY", "C", "posting">>, <<"TOTGST", "C", "total">>,
      <<"FEDTAX", "C", "posting">>, <<"PROTAX", "C", "posting">>,
      <<"TOT.TAX", "C", "total">>, <<"CL", "C", "total">>, <<"LOAN", "C", "posting">>,
      <<"SH.LOAN", "C", "posting">>, <<"TOTTERM", "C", "total">>, <<"LTL", "C", "total">>,
      <<"CAPITAL", "C", "posting">>, <<"RE", "C", "total">>, <<"EQ", "C", "total">>,
      <<"TL", "C", "total">>, <<"REV", "C", "posting">>, <<"REV.SVC", "C", "posting">>,
      <<"TOTREV", "C", "total">>, <<"CS.MAT", "D", "posting">>,
      <<"CS.SUB", "D", "posting">>, <<"CS.SHIP", "D", "posting">>,
      <<"GROSS", "C", "total">>, <<"EX.SAL", "D", "posting">>,
      <<"EX.RENT", "D", "posting">>, <<"EX.OFFICE", "D", "posting">>,
      <<"EX.COMP", "D", "posting">>, <<"EX.ADV", "D", "posting">>,
      <<"EX.INS", "D", "posting">>, <<"EX.PHONE", "D", "posting">>,
      <<"EX.TRAVEL", "D", "posting">>, <<"EX.MEALS", "D", "posting">>,
      <<"EX.AUTO", "D", "posting">>, <<"EX.POST", "D", "posting">>,
      <<"EX.FEES", "D", "posting">>, <<"EX.SC", "D", "posting">>,
      <<"EX.AMORT", "D", "posting">>, <<"EX.SUSP", "D", "posting">>,
      <<"TOTEX", "D", "total">>, <<"OPINC", "C", "total">>, <<"EX.LIFE", "D", "posting">>,
      <<"EX.LTINT", "D", "posting">>, <<"EX.INTAX", "D", "posting">>,
      <<"TAXINC", "C", "total">>, <<"NETINC", "C", "total">>, <<"NI", "C", "total">>,
      <<"RE.OPEN", "C", "posting">>, <<"DIVPAID", "C", "posting">>,
      <<"RE.CLOSE", "C", "total">>>>
StarterBS ==
    <<<<"label", "", "">>, <<"label", "", "">>, <<"account", "CASH", "TOTBANK">>,
      <<"account", "BANK.CHQ", "TOTBANK">>, <<"account", "BANK.SAV", "TOTBANK">>,
      <<"separator", "", "">>, <<"total", "TOTBANK", "CA">>, <<"label", "", "">>,
      <<"label", "", "">>, <<"account", "AR", "AR.TOT">>, <<"separator", "", "">>,
      <<"total", "AR.TOT", "CA">>, <<"label", "", "">>, <<"label", "", "">>,
      <<"account", "PREPAIDS", "CA">>, <<"account", "DEP", "CA">>, <<"separator", "", "">>,
      <<"total", "CA", "TA">>, <<"separator", "", "">>, <<"label", "", "">>,
      <<"label", "", "">>, <<"account", "EQUIP", "TOTFA">>, <<"account", "FURN", "TOTFA">>,
      <<"account", "COMP", "TOTFA">>, <<"separator", "", "">>,
      <<"total", "TOTFA", "NETFA">>, <<"label", "", "">>, <<"label", "", "">>,
      <<"account", "EQUIP.DEP", "TOTDEP">>, <<"account", "FURN.DEP", "TOTDEP">>,
      <<"account", "COMP.DEP", "TOTDEP">>, <<"separator", "", "">>,
      <<"total", "TOTDEP", "NETFA">>, <<"separator", "", "">>, <<"total", "NETFA", "TA">>,
      <<"separator", "", "">>, <<"label", "", "">>, <<"total", "TA", "">>,
      <<"separator", "", "">>, <<"label", "", "">>, <<"label", "", "">>,
      <<"account", "AP", "CL">>, <<"account", "AP.CC", "CL">>, <<"label", "", "">>,
      <<"label", "", "">>, <<"account", "GST.OUT", "TOTGST">>,
      <<"account", "GST.IN", "TOTGST">>, <<"account", "GST.REMIT", "TOTGST">>,
      <<"account", "GST.PAY", "TOTGST">>, <<"separator", "", "">>,
      <<"total", "TOTGST", "CL">>, <<"label", "", "">>, <<"account", "FEDTAX", "TOT.TAX">>,
      <<"account", "PROTAX", "TOT.TAX">>, <<"separator", "", "">>,
      <<"total", "TOT.TAX", "CL">>, <<"separator", "", "">>, <<"total", "CL", "TL">>,
      <<"separator", "", "">>, <<"label", "", "">>, <<"label", "", "">>,
      <<"account", "LOAN", "TOTTERM">>, <<"account", "SH.LOAN", "TOTTERM">>,
      <<"separator", "", "">>, <<"total", "TOTTERM", "LTL">>, <<"total", "LTL", "TL">>,
      <<"separator", "", "">>, <<"label", "", "">>, <<"label", "", "">>,
      <<"account", "CAPITAL", "EQ">>, <<"account", "RE", "EQ">>, <<"separator", "", "">>,
      <<"total", "EQ", "TL">>, <<"separator", "", "">>, <<"label", "", "">>,
      <<"total", "TL", "">>, <<"separator", "", "">>>>
StarterIS ==
    <<<<"label", "", "">>, <<"account", "REV", "TOTREV">>,
      <<"account", "REV.SVC", "TOTREV">>, <<"separator", "", "">>,
      <<"total", "TOTREV", "GROSS">>, <<"label", "", "">>, <<"label", "", "">>,
      <<"account", "CS.MAT", "GROSS">>, <<"account", "CS.SUB", "GROSS">>,
      <<"account", "CS.SHIP", "GROSS">>, <<"separator", "", "">>, <<"label", "", "">>,
      <<"total", "GROSS", "OPINC">>, <<"separator", "", "">>, <<"label", "", "">>,
      <<"label", "", "">>, <<"account", "EX.SAL", "TOTEX">>,
      <<"account", "EX.RENT", "TOTEX">>, <<"account", "EX.OFFICE", "TOTEX">>,
      <<"account", "EX.COMP", "TOTEX">>, <<"account", "EX.ADV", "TOTEX">>,
      <<"account", "EX.INS", "TOTEX">>, <<"account", "EX.PHONE", "TOTEX">>,
      <<"account", "EX.TRAVEL", "TOTEX">>, <<"account", "EX.MEALS", "TOTEX">>,
      <<"account", "EX.AUTO", "TOTEX">>, <<"account", "EX.POST", "TOTEX">>,
      <<"account", "EX.FEES", "TOTEX">>, <<"account", "EX.SC", "TOTEX">>,
      <<"account", "EX.AMORT", "TOTEX">>, <<"account", "EX.SUSP", "TOTEX">>,
      <<"separator", "", "">>, <<"total", "TOTEX", "OPINC">>, <<"separator", "", "">>,
      <<"label", "", "">>, <<"total", "OPINC", "TAXINC">>, <<"separator", "", "">>,
      <<"label", "", "">>, <<"label", "", "">>, <<"account", "EX.LIFE", "TAXINC">>,
      <<"account", "EX.LTINT", "TAXINC">>, <<"separator", "", "">>,
      <<"total", "TAXINC", "NETINC">>, <<"label", "", "">>,
      <<"account", "EX.INTAX", "NETINC">>, <<"separator", "", "">>,
      <<"total", "NETINC", "NI">>, <<"separator", "", "">>, <<"label", "", "">>,
      <<"account", "RE.OPEN", "RE.CLOSE">>, <<"total", "NI", "RE.CLOSE">>,
      <<"account", "DIVPAID", "RE.CLOSE">>, <<"separator", "", "">>,
      <<"total", "RE.CLOSE", "RE">>, <<"separator", "", "">>>>
StarterREOFS ==
    <<<<"label", "", "">>, <<"label", "", "">>, <<"account", "RE.OPEN", "">>,
      <<"account", "RE.OFS", "RE">>, <<"label", "", "">>, <<"separator", "", "">>>>

\* ac(name, bal, desc, atype): a[name] = add_account(...)
ac(db, row) ==
    add_account(db, [name |-> row[1], normal_balance |-> row[2], account_type |-> row[3]]).db

RECURSIVE StarterChart(_, _, _)
StarterChart(db, rows, i) ==
    IF i > Len(rows) THEN db
    ELSE LET added == ac(db, rows[i])
         IN IF added = db THEN db ELSE StarterChart(added, rows, i + 1)

\* a.get(an): the id add_account returned for the name, None without one.
StarterAccountId(db, an) ==
    IF \E id \in 1..Len(db.accounts) : db.accounts[id].name = an
    THEN CHOOSE id \in 1..Len(db.accounts) : db.accounts[id].name = an
    ELSE NoAccount

\* bi, ii, ri: p[0] += 10, then add_report_item(report, itype, desc, a.get(an), ind, p[0], tt1)
RECURSIVE StarterItems(_, _, _, _)
StarterItems(db, report_id, rows, i) ==
    IF i > Len(rows) THEN db
    ELSE LET added == add_report_item(db, report_id, rows[i][1],
                                      StarterAccountId(db, rows[i][2]), 10 * i,
                                      [NoTotalTo EXCEPT ![1] = rows[i][3]]).db
         IN IF added = db THEN db ELSE StarterItems(added, report_id, rows, i + 1)

StarterReports ==
    LET bs == add_report(EmptyDB, <<"B", "S">>)
        is_ == add_report(bs.db, <<"I", "S">>)
        aje == add_report(is_.db, <<"A", "J", "E">>)
        trx == add_report(aje.db, <<"T", "R", "X">>)
        reofs == add_report(trx.db, <<"R", "E", ".", "O", "F", "S">>)
    IN [db |-> reofs.db, bs |-> bs.ret, is_ |-> is_.ret, reofs |-> reofs.ret]

create_starter_books ==
    LET charted == StarterChart(StarterReports.db, StarterAccounts, 1)
        with_bs == StarterItems(charted, StarterReports.bs, StarterBS, 1)
        with_is == StarterItems(with_bs, StarterReports.is_, StarterIS, 1)
        with_ofs == ac(with_is, <<"RE.OFS", "D", "posting">>)
    IN StarterItems(with_ofs, StarterReports.reofs, StarterREOFS, 1)

InitStarter ==
    /\ InitFrom(create_starter_books)
    /\ last = [op |-> "create_starter_books", err |-> "ok", ret |-> 0]

\* One unit from the revenue account, the account farthest from TL, to any account
\* of the chart.
StarterPost ==
    \E d \in Dates, a \in 1..Len(accounts) :
        /\ seq_txn < MaxStarterTxnId
        /\ CommitRet("add_transaction",
                     add_transaction(DB, d, <<[account_id |-> a, amount |-> 1],
                                              [account_id |-> StarterAccountId(DB, "REV"),
                                               amount |-> 0 - 1]>>))

StarterCompute ==
    \E range \in DateRanges :
        CommitRet("compute_report_column",
                  ReadOnly(DB, [report_id |-> StarterReports.bs,
                                date_from |-> range[1], date_to |-> range[2],
                                column |-> compute_report_column(DB, StarterReports.bs,
                                                                 range[1], range[2])]))

NextStarter == StarterPost \/ StarterCompute

SpecStarter == InitStarter /\ [][NextStarter]_vars

(***************************************************************************)
(* Two processes call add_transaction while the lock date is set.  Every   *)
(* "with get_db()" block is a connection of its own, so the other process  *)
(* can commit between two of them: add_transaction checks the sum and the  *)
(* length in memory, reads the account types in one connection, reads      *)
(* lock_date through get_meta in a second one and writes in a third.       *)
(* set_lock_date and year_end are taken whole.                             *)
(***************************************************************************)
MaxRaceTxnId == 2

RaceLineLists ==
    {<<[account_id |-> 1, amount |-> 1], [account_id |-> 2, amount |-> 0 - 1]>>,
     <<[account_id |-> 1, amount |-> 1], [account_id |-> 2, amount |-> 0]>>,
     <<[account_id |-> 1, amount |-> 1], [account_id |-> 4, amount |-> 0 - 1]>>}

InitRace ==
    /\ InitFrom(YEBooks(Len(YEAccounts)))
    /\ last = [op |-> "init_db", err |-> "ok"]

\* A step of process p that writes nothing: it raises err, or goes on to pc.
RaceStep(p, err, next) ==
    /\ UNCHANGED Ledger
    /\ last' = [op |-> "add_transaction", err |-> err]
    /\ calls' = [calls EXCEPT ![p] = IF err = "ok" THEN next ELSE Idle]

\* total = sum(...); if total != 0: raise; if len(lines) < 2: raise
AddBegin(p) ==
    \E d \in Dates, ls \in RaceLineLists :
        /\ calls[p].pc = "idle"
        /\ seq_txn + Cardinality({q \in Writers : calls[q].pc # "idle"}) < MaxRaceTxnId
        /\ RaceStep(p, IF SumAmounts(ls) # 0 THEN "Unbalanced"
                       ELSE IF Len(ls) < 2 THEN "TooFewLines" ELSE "ok",
                    [pc |-> "totals", date_str |-> d, ls |-> ls])

\* with get_db() as db: the account_type of every line's account
AddCheckTotals(p) ==
    /\ calls[p].pc = "totals"
    /\ RaceStep(p, IF PostsToTotal(DB, calls[p].ls) THEN "TotalAccount" ELSE "ok",
                [calls[p] EXCEPT !.pc = "lock"])

\* lock = get_meta('lock_date', ''); if lock and date_str <= lock: raise
AddCheckLock(p) ==
    /\ calls[p].pc = "lock"
    /\ RaceStep(p, IF IsLocked(DB, calls[p].date_str) THEN "Locked" ELSE "ok",
                [calls[p] EXCEPT !.pc = "insert"])

\* with get_db() as db: INSERT INTO transactions, INSERT INTO lines
AddInsertRows(db, date_str, ls) ==
    get_db(db, InsertLines([db EXCEPT !.transactions = @ \cup {[id |-> db.seq_txn + 1,
                                                                date |-> date_str]},
                                      !.seq_txn = db.seq_txn + 1],
                           db.seq_txn + 1, ls, 1))

AddInsertOf(p, r) ==
    /\ accounts' = r.db.accounts
    /\ transactions' = r.db.transactions
    /\ lines' = r.db.lines
    /\ seq_txn' = r.db.seq_txn
    /\ UNCHANGED <<seq_item, reports, report_items, import_rules, tax_codes, meta>>
    /\ last' = [op |-> "add_transaction", err |-> r.err]
    /\ calls' = [calls EXCEPT ![p] = Idle]

AddInsert(p) ==
    /\ calls[p].pc = "insert"
    /\ AddInsertOf(p, AddInsertRows(DB, calls[p].date_str, calls[p].ls))

RaceYearEnd ==
    \E s \in RawDates :
        /\ year_end(DB, s).db.seq_txn
               + Cardinality({q \in Writers : calls[q].pc # "idle"}) <= MaxRaceTxnId
        /\ Commit("year_end", year_end(DB, s))

NextRace ==
    \/ \E p \in Writers : AddBegin(p)
    \/ \E p \in Writers : AddCheckTotals(p)
    \/ \E p \in Writers : AddCheckLock(p)
    \/ \E p \in Writers : AddInsert(p)
    \/ SetLockDate
    \/ RaceYearEnd

SpecRace == InitRace /\ [][NextRace]_vars

(***************************************************************************)
(* The claims.                                                             *)
(***************************************************************************)
TxnLines(id) == {l \in lines : l.transaction_id = id}

(* C1: the line amounts of every stored transaction sum to exactly zero,   *)
(* and add_transaction and update_transaction reject every line list that  *)
(* does not sum to zero and leave the ledger as it was.                    *)
C1_BalancedLedger ==
    /\ \A t \in transactions : SumLines(TxnLines(t.id)) = 0
    /\ \A d \in Dates, ls \in LineLists :
        SumAmounts(ls) # 0 =>
            /\ add_transaction(DB, d, ls).err = "Unbalanced"
            /\ add_transaction(DB, d, ls).db = DB
            /\ \A id \in TxnIds :
                /\ update_transaction(DB, id, d, ls).err = "Unbalanced"
                /\ update_transaction(DB, id, d, ls).db = DB

\* An unbalanced add_transaction was rejected while a transaction is stored.
C1_Witness ==
    /\ last.op = "add_transaction" /\ last.err = "Unbalanced"
    /\ \E t \in transactions : Cardinality(TxnLines(t.id)) = 2

(* C2: a transaction dated on or before the lock date is immutable: no     *)
(* call changes its header or its lines, whatever the call's parameters.   *)
C2_LockedImmutable ==
    [][\A t \in transactions :
        (meta.lock_date # NoLock /\ t.date <= meta.lock_date) =>
            /\ t \in transactions'
            /\ {l \in lines' : l.transaction_id = t.id} = TxnLines(t.id)]_vars

(* C3: no stored line references an account whose account_type is total.   *)
C3_NoLineOnTotal ==
    \A l \in lines : accounts[l.account_id].account_type # "total"

(* C4: every stored transaction has at least two lines.                    *)
C4_AtLeastTwoLines ==
    \A t \in transactions : Cardinality(TxnLines(t.id)) >= MinLines

(* C5: an add_transaction or update_transaction that fails leaves every    *)
(* table as it was before the call: no header and no subset of the lines   *)
(* is written, and the lines an update deleted are back.                   *)
C5_AtomicWrites ==
    [][(last'.op \in {"add_transaction", "update_transaction"} /\ last'.err # "ok")
        => UNCHANGED Ledger]_vars

\* An update_transaction failed on a foreign key after it had rewritten the
\* header and deleted the lines of a stored transaction.
C5_Witness ==
    /\ last.op = "update_transaction" /\ last.err = "IntegrityError"
    /\ \E t \in transactions : Cardinality(TxnLines(t.id)) = 2

(* C6: for every as_of date, get_trial_balance returns total_debit equal   *)
(* to total_credit.                                                        *)
C6_TrialBalanceBalances ==
    \A as_of \in Dates \cup {NoDate} :
        get_trial_balance(DB, as_of).total_debit = get_trial_balance(DB, as_of).total_credit

(* C8: delete_transaction, bulk_delete_transactions and update_transaction *)
(* of a transaction id that is not stored fail (not found) and count       *)
(* nothing as deleted.                                                     *)
C8_NotFoundReported ==
    \A id \in TxnIds :
        ~TxnExists(DB, id) =>
            /\ delete_transaction(DB, id).err # "ok"
            /\ bulk_delete_transactions(DB, <<id>>).err # "ok"
               \/ bulk_delete_transactions(DB, <<id>>).ret[1] = 0
            /\ \A d \in Dates, ls \in LineLists : update_transaction(DB, id, d, ls).err # "ok"

\* The report column as the engine sees the stored books, with no date filter.
Targets == total_to_targets(DB)
Raw == raw_balances(DB, NoDate, NoDate)
Final == merged_values(DB, NoDate, NoDate)
TargetsOf(n) == Get(Targets, n, {})
GraphNames == DOMAIN Targets \cup UNION {Targets[n] : n \in DOMAIN Targets}
ShownAmount(column, name) ==
    LET i == CHOOSE j \in 1..Len(column) : column[j].acct_name = name
    IN column[i].amount

RECURSIVE Descendants(_, _)
Descendants(S, steps) ==
    IF steps = 0 THEN {}
    ELSE LET next == UNION {TargetsOf(n) : n \in S}
         IN next \cup Descendants(next, steps - 1)
IsAcyclic == \A n \in GraphNames : n \notin Descendants({n}, Cardinality(GraphNames))

\* The books of the example: B totals to A, A totals to C, A holds 100, B holds 0.
C9_ExampleBooks ==
    /\ GraphNames = {"A", "B", "C"}
    /\ TargetsOf("A") = {"C"} /\ TargetsOf("B") = {"A"} /\ TargetsOf("C") = {}
    /\ Get(Raw, "A", 0) = 100 /\ Get(Raw, "B", 0) = 0 /\ Get(Raw, "C", 0) = 0
    /\ last.op = "compute_report_column"

(* C9 as stated: on the example books (A raw 100, B raw 0, B total-to A,   *)
(* A total-to C) the computed column shows C = 100 and A = 200.            *)
C9_ExampleAsStated ==
    C9_ExampleBooks =>
        ShownAmount(last.ret, "C") = 100 /\ ShownAmount(last.ret, "A") = 200

(* C9 amended: on the example books the computed column shows C = 100 and  *)
(* A = 100, A's own 100 plus the 0 that B sends in; B shows 0.             *)
C9_ExampleAmended ==
    C9_ExampleBooks =>
        /\ ShownAmount(last.ret, "C") = 100
        /\ ShownAmount(last.ret, "A") = 100
        /\ ShownAmount(last.ret, "B") = 0

C9_Witness == C9_ExampleBooks /\ Len(last.ret) = 3

(* C10: whenever the total-to graph of the stored items is acyclic, the    *)
(* final unsigned value of every account name n is raw_balance(n) plus the *)
(* sum of the final values of every name m that has n among its targets,   *)
(* whatever the depth of the chains.                                       *)
C10_FinalIsRawPlusSources ==
    IsAcyclic =>
        \A n \in GraphNames :
            Get(Final, n, 0) =
                Get(Raw, n, 0)
                + SumOver({m \in GraphNames : n \in TargetsOf(m)},
                          [m \in GraphNames |-> Get(Final, m, 0)])

LedgerKey(e) == <<e.date, e.txn_id, e.line_id[2]>>
KeyBefore(a, b) ==
    \/ a[1] < b[1]
    \/ a[1] = b[1] /\ a[2] < b[2]
    \/ a[1] = b[1] /\ a[2] = b[2] /\ a[3] < b[3]
RECURSIVE SumAmountsUpTo(_, _)
SumAmountsUpTo(entries, k) ==
    IF k = 0 THEN 0 ELSE entries[k].amount + SumAmountsUpTo(entries, k - 1)
SignOf(account_id) == IF accounts[account_id].normal_balance = "D" THEN 1 ELSE 0 - 1

(* C12: get_ledger returns exactly the account's lines of the date range,  *)
(* ordered by (transaction date, transaction id, line sort order); each    *)
(* entry's amount is the raw amount times the sign of the account's normal *)
(* balance and its running balance is the sum of the amounts up to and     *)
(* including it; the last running balance is get_account_balance of the    *)
(* same account and range times that sign.                                 *)
C12_LedgerRunningBalance ==
    last.op = "get_ledger" =>
        LET e == last.ret.entries
            acct == last.ret.account_id
        IN /\ {e[k].line_id : k \in 1..Len(e)} =
                  {<<l.transaction_id, l.sort_order>> :
                      l \in {x \in lines : x.account_id = acct
                                           /\ InRange(DB, x, last.ret.date_from,
                                                      last.ret.date_to)}}
           /\ \A k \in 1..(Len(e) - 1) : KeyBefore(LedgerKey(e[k]), LedgerKey(e[k + 1]))
           /\ \A k \in 1..Len(e) :
                  /\ e[k].amount = e[k].raw_amount * SignOf(acct)
                  /\ e[k].running_balance = SumAmountsUpTo(e, k)
           /\ Len(e) > 0 =>
                  e[Len(e)].running_balance =
                      get_account_balance(DB, acct, last.ret.date_from, last.ret.date_to)
                      * SignOf(acct)

C12_Witness ==
    /\ last.op = "get_ledger"
    /\ Len(last.ret.entries) >= 3
    /\ accounts[last.ret.account_id].normal_balance = "C"
    /\ \E k \in 1..(Len(last.ret.entries) - 1) :
           last.ret.entries[k].txn_id > last.ret.entries[k + 1].txn_id

\* What import_rows does with one row on the stored books, and the lines it posts.
ImportOne(row) == import_rows(DB, 1, <<row>>)
NewLines(r) == {l \in r.db.lines : l.transaction_id > seq_txn}
AmountOn(ls, name) ==
    SumLines({l \in ls : LowerName(accounts[l.account_id].name) = LowerName(name)})
TaxRule(row) == apply_rules(DB, row.description, row.amount_cents)
TaxRate(row) == (CHOOSE tc \in get_tax_code(DB, TaxRule(row).tax_code) : TRUE).rate_percent
HasTaxSplit(row) == row.amount_cents # 0 /\ TaxRule(row).tax_info.tax_acct # NoName

(* C13: for every row with a non-zero amount whose rule carries a tax code *)
(* with rate > 0, the tax is |amount| * rate / (100 + rate) rounded to the *)
(* nearest integer, net is |amount| - tax, tax + net = |amount| and        *)
(* 0 <= tax <= |amount|; the transaction posted for the row sums to zero   *)
(* and, when the tax account exists and the tax is not zero, carries net   *)
(* on the rule's account, tax on the tax account and |amount| on the bank  *)
(* account; 10500 cents at 5% split into tax 500 and net 10000.            *)
C13_ImportTaxSplit ==
    \A row \in ImportRowInputs :
        HasTaxSplit(row) =>
            LET info == TaxRule(row).tax_info
                amt == Abs(row.amount_cents)
                rate == TaxRate(row)
                r == ImportOne(row)
                sign == IF row.amount_cents < 0 THEN 1 ELSE 0 - 1
            IN /\ info.tax + info.net = amt
               /\ 0 <= info.tax /\ info.tax <= amt
               /\ 2 * Abs(info.tax * (100 + rate) - amt * rate) <= 100 + rate
               /\ (amt = 10500 /\ rate = 5) => (info.tax = 500 /\ info.net = 10000)
               /\ r.err = "ok"
               /\ r.ret.posted = 1 =>
                     /\ SumLines(NewLines(r)) = 0
                     /\ AmountOn(NewLines(r), "BANK") = 0 - sign * amt
                     /\ (info.tax # 0 /\ get_account_by_name(DB, info.tax_acct) # NoRow) =>
                            /\ AmountOn(NewLines(r), TaxRule(row).account_name) = sign * info.net
                            /\ AmountOn(NewLines(r), info.tax_acct) = sign * info.tax

C13_Witness ==
    /\ last.op = "import_rows"
    /\ \E t \in transactions :
           /\ Cardinality(TxnLines(t.id)) = 3
           /\ AmountOn(TxnLines(t.id), "GST.IN") = 500
           /\ AmountOn(TxnLines(t.id), "REV") = 10000
           /\ AmountOn(TxnLines(t.id), "BANK") = 0 - 10500
    /\ \E t \in transactions : AmountOn(TxnLines(t.id), "GST.OUT") = 0 - 1

\* Why a row is not posted, told from the row and the stored books alone; "" if it is.
RowReason(row) ==
    IF row.description = NoText THEN "Missing description"
    ELSE IF row.date.fmt \notin {"iso", "ofx"} THEN "Bad date"
    ELSE IF meta.lock_date # NoLock /\ row.date.day <= meta.lock_date THEN "Before lock date"
    ELSE IF row.amount_cents = 0 THEN "Zero amount"
    ELSE IF get_account_by_name(DB, TaxRule(row).account_name) = NoRow THEN "Account not found"
    ELSE IF accounts[get_account_by_name(DB, TaxRule(row).account_name)].account_type = "total"
    THEN "TotalAccount"
    ELSE ""
BadRows(rows) == {i \in 1..Len(rows) : RowReason(rows[i]) # ""}

\* What C14 asks of the outcome r of a batch whose bad rows are the set bad.
BatchOutcomeOk(rows, r, bad) ==
    /\ r.err = "ok"
    /\ r.ret.rows_processed = Len(rows)
    /\ r.ret.skipped = Cardinality(bad)
    /\ r.ret.posted = Len(rows) - Cardinality(bad)
    /\ Cardinality(r.db.transactions) = Cardinality(transactions) + r.ret.posted
    /\ {r.ret.errors[k].row : k \in 1..Len(r.ret.errors)} = bad
    /\ \A k \in 1..Len(r.ret.errors) :
           r.ret.errors[k].reason = RowReason(rows[r.ret.errors[k].row])
    /\ \A t \in r.db.transactions \ transactions :
           \E i \in (1..Len(rows)) \ bad : t.date = rows[i].date.day

SameNameIgnoringCase(i, j) == LowerName(accounts[i].name) = LowerName(accounts[j].name)

C15_NamesUniqueIgnoringCase ==
    /\ \A i, j \in 1..Len(accounts) : SameNameIgnoringCase(i, j) => i = j
    /\ \A a \in NamedAccounts :
           (\E i \in 1..Len(accounts) : LowerName(accounts[i].name) = LowerName(a.name))
               => add_account(DB, a).err # "ok"
    /\ last.op = "get_account_by_name" =>
           \A i \in 1..Len(accounts) :
               LowerName(accounts[i].name) = LowerName(last.ret[1]) => last.ret[2] = i


(***************************************************************************)
(* C16: bulk_delete_transactions checks the lock per listed id and never   *)
(* raises: a listed transaction dated on or before the lock date stays     *)
(* with all its lines, a listed transaction dated after it is removed with *)
(* all its lines, the returned deleted count is the number of transactions *)
(* removed, and deleted + skipped is the number of ids given.              *)
(***************************************************************************)
Listed(ids) == {ids[i] : i \in 1..Len(ids)}

BulkDeleteOutcomeOk(ids, r) ==
    /\ r.err = "ok"
    /\ \A t \in transactions :
           t.id \in Listed(ids) =>
               IF TxnLocked(DB, t.id)
               THEN /\ t \in r.db.transactions
                    /\ {l \in r.db.lines : l.transaction_id = t.id} = TxnLines(t.id)
               ELSE /\ ~TxnExists(r.db, t.id)
                    /\ {l \in r.db.lines : l.transaction_id = t.id} = {}
    /\ r.ret[1] = Cardinality(transactions) - Cardinality(r.db.transactions)
    /\ r.ret[1] + r.ret[2] = Len(ids)

C16_BulkDeletePerItem ==
    \A ids \in SeqsUpTo(YETxnIds, 2) :
        BulkDeleteOutcomeOk(ids, bulk_delete_transactions(DB, ids))


(***************************************************************************)
(* C17: toggle_doc_on_file sets doc_on_file of every line of the toggled   *)
(* line's transaction to the negation of the toggled line's previous       *)
(* value; toggle_reconcile flips reconciled on the toggled line only; and  *)
(* neither changes another transaction, an amount or an account reference. *)
(***************************************************************************)
Negated(flag) == IF flag # 0 THEN 0 ELSE 1
ToggledLine(line_id) == CHOOSE l \in lines : l.transaction_id = line_id[1] /\ l.sort_order = line_id[2]
WithoutDocOnFile(ls) == {[l EXCEPT !.doc_on_file = 0] : l \in ls}
OtherLines(ls, txn_id) == {l \in ls : l.transaction_id # txn_id}

C17_TogglesTouchOnlyTheirFlag ==
    [][/\ (last'.op = "toggle_doc_on_file" /\ last'.err = "ok") =>
              /\ last'.ret[2] = Negated(ToggledLine(last'.ret[1]).doc_on_file)
              /\ \A l \in lines' :
                     l.transaction_id = last'.ret[1][1] => l.doc_on_file = last'.ret[2]
              /\ WithoutDocOnFile(lines') = WithoutDocOnFile(lines)
              /\ OtherLines(lines', last'.ret[1][1]) = OtherLines(lines, last'.ret[1][1])
              /\ UNCHANGED <<accounts, transactions, seq_txn, meta>>
       /\ (last'.op = "toggle_reconcile" /\ last'.err = "ok") =>
              /\ last'.ret[2] = Negated(ToggledLine(last'.ret[1]).reconciled)
              /\ lines' = (lines \ {ToggledLine(last'.ret[1])})
                             \cup {[ToggledLine(last'.ret[1]) EXCEPT !.reconciled = last'.ret[2]]}
              /\ UNCHANGED <<accounts, transactions, seq_txn, meta>>]_vars

\* A three-line transaction whose lines are all on file after toggle_doc_on_file
\* cleared another transaction's flag, with reconciled set on one line of three.
C17_Witness ==
    /\ last.op = "toggle_doc_on_file" /\ last.err = "ok" /\ last.ret[2] = 0
    /\ \E t \in transactions :
           /\ t.id # last.ret[1][1]
           /\ Cardinality(TxnLines(t.id)) = 3
           /\ \A l \in TxnLines(t.id) : l.doc_on_file = 1
           /\ Cardinality({l \in TxnLines(t.id) : l.reconciled = 1}) = 1
    /\ \A l \in TxnLines(last.ret[1][1]) : l.doc_on_file = 0


(***************************************************************************)
(* C18: on every total-to graph, cycles and self-loops included, the       *)
(* accumulation loop runs at most 10 passes and compute_report_column      *)
(* returns one amount per display item; the loop stops before the 10th     *)
(* pass only when a pass gave the map of the pass before; and on a graph   *)
(* with a cycle the loop does not converge and the 10th pass is returned.  *)
(***************************************************************************)
NoAccumulated == [t \in {} |-> 0]

\* All MaxPasses passes run with no early stop: the accumulated map the last
\* one leaves, and the passes that left the map of the pass before.
RECURSIVE AllPasses(_, _, _, _, _)
AllPasses(acct_tt, raw_bal, prev, n, stable) ==
    IF n > MaxPasses THEN [map |-> prev, stable |-> stable]
    ELSE LET accumulated == AccumulatePass(acct_tt, raw_bal, prev)
         IN AllPasses(acct_tt, raw_bal, accumulated, n + 1,
                      IF accumulated = prev THEN stable \cup {n} ELSE stable)
TenPasses == AllPasses(Targets, Raw, NoAccumulated, 1, {})

Passes == PassesRun(Targets, Raw, NoAccumulated, MaxPasses)
Accumulated == Accumulate(Targets, Raw, NoAccumulated, MaxPasses)

RECURSIVE Reach(_, _, _)
Reach(acct_tt, S, steps) ==
    IF steps = 0 THEN {}
    ELSE LET next == UNION {Get(acct_tt, n, {}) : n \in S}
         IN next \cup Reach(acct_tt, next, steps - 1)
CycleNames(acct_tt) == {n \in DOMAIN acct_tt : n \in Reach(acct_tt, {n}, Cardinality(DOMAIN acct_tt))}
\* Some balance (none is negative in these books) lies on a cycle or totals into one.
BalanceReachesCycle(acct_tt, raw_bal, cyc) ==
    \E n \in DOMAIN raw_bal :
        /\ raw_bal[n] # 0
        /\ n \in cyc \/ Reach(acct_tt, {n}, Cardinality(DOMAIN acct_tt)) \cap cyc # {}

LoopOk(all, passes, accumulated) ==
    /\ passes \in 1..MaxPasses
    /\ accumulated = all.map
    /\ \A n \in all.stable : passes <= n
    /\ passes < MaxPasses => passes \in all.stable

ColumnOk ==
    last.op = "compute_report_column" =>
        /\ last.err = "ok"
        /\ Len(last.ret) = Cardinality({it \in report_items : it.report_id = 1})
        /\ \A i \in 1..Len(last.ret) :
               last.ret[i].amount \in Int
               /\ \E it \in report_items : it.report_id = 1 /\ it.id = last.ret[i].item
        /\ \A i, j \in 1..Len(last.ret) : last.ret[i].item = last.ret[j].item => i = j

CycleAsStated(all, passes, cyc) ==
    cyc # {} => passes = MaxPasses /\ all.stable = {}

CycleAmended(all, passes, cyc, reached) ==
    /\ (cyc # {} /\ reached) => passes = MaxPasses /\ all.stable = {}
    /\ (cyc # {} /\ ~reached) => passes = 2 /\ all.stable = 2..MaxPasses

WithSlotSix(db, item_id, target) ==
    [db EXCEPT !.report_items =
        {IF it.id = item_id THEN [it EXCEPT !.total_to[TotalToSlots] = target] ELSE it : it \in @}]

SlotSixTargets == {NoName, "A", "B", "C"}

AccountItems == {it \in report_items : it.account_id # NoAccount}
ItemEdges ==
    {e \in {<<accounts[it.account_id].name, it.total_to[k]>> : it \in AccountItems, k \in 1..WiredSlots} :
        e[2] # NoName}
EdgeMap == [n \in {e[1] : e \in ItemEdges} |-> {e[2] : e \in {x \in ItemEdges : x[1] = n}}]

\* The balance of the posting account of that name, if an item names it.
OneBalance(name, date_from, date_to) ==
    LET ids == {it.account_id : it \in {x \in AccountItems :
                    accounts[x.account_id].name = name
                    /\ accounts[x.account_id].account_type = "posting"}}
    IN IF ids = {} THEN 0
       ELSE get_account_balance(DB, CHOOSE id \in ids : TRUE, date_from, date_to)

RECURSIVE ValueOf(_, _, _, _)
ValueOf(name, date_from, date_to, depth) ==
    IF depth = 0 THEN 0
    ELSE LET sources == {e[1] : e \in {x \in ItemEdges : x[2] = name}}
         IN OneBalance(name, date_from, date_to)
            + SumOver(sources, [m \in sources |-> ValueOf(m, date_from, date_to, depth - 1)])

SignOfName(name) ==
    IF \E id \in 1..Len(accounts) : accounts[id].name = name /\ accounts[id].normal_balance = "C"
    THEN 0 - 1 ELSE 1

ItemById(id) == CHOOSE it \in report_items : it.id = id
ItemsOf(report_id) == {it \in report_items : it.report_id = report_id}

OnePairPerItemInOrder(column, report_id) ==
    /\ {column[i].item : i \in 1..Len(column)} = {it.id : it \in ItemsOf(report_id)}
    /\ Len(column) = Cardinality(ItemsOf(report_id))
    /\ \A i, j \in 1..Len(column) :
           i < j => ItemById(column[i].item).position < ItemById(column[j].item).position

FinalValue(name, date_from, date_to) == Get(merged_values(DB, date_from, date_to), name, 0)

AccountAmountsOk(column, date_from, date_to) ==
    \A i \in 1..Len(column) :
        LET it == ItemById(column[i].item)
        IN (it.item_type \in {"account", "total"} /\ it.account_id # NoAccount) =>
               column[i].amount
                   = SignOfName(accounts[it.account_id].name)
                     * FinalValue(accounts[it.account_id].name, date_from, date_to)

LabelAmountsZero(column) ==
    \A i \in 1..Len(column) :
        ItemById(column[i].item).item_type \in {"label", "separator"} => column[i].amount = 0

C21_OnePairPerItem ==
    last.op = "compute_report_column" =>
        /\ OnePairPerItemInOrder(last.ret.column, last.ret.report_id)
        /\ AccountAmountsOk(last.ret.column, last.ret.date_from, last.ret.date_to)
        /\ LabelAmountsZero(last.ret.column)


(***************************************************************************)
(* C22: apply_rules returns the account of a stored rule whose keyword     *)
(* occurs in the description ignoring case, such that no matching rule has *)
(* a higher priority, nor the same priority and an earlier keyword; when    *)
(* no rule matches it returns the suspense account EX.SUSP.                 *)
(***************************************************************************)
MatchingRules(description) ==
    {r \in import_rules : Contains(LowerText(description), LowerText(r.keyword))}

C22_HighestPriorityMatchWins ==
    last.op = "apply_rules" =>
        IF MatchingRules(last.ret.description) = {}
        THEN last.ret.result.account_name = "EX.SUSP"
        ELSE \E r \in MatchingRules(last.ret.description) :
                 /\ last.ret.result.account_name = r.account_name
                 /\ last.ret.result.tax_code = r.tax_code
                 /\ \A q \in MatchingRules(last.ret.description) :
                        /\ q.priority <= r.priority
                        /\ q.priority = r.priority => ~TextLess(q.keyword, r.keyword)

\* Three rules match "Ab"; the one stored last, with the greatest keyword, has the
\* highest priority and is the one returned.
C22_Witness ==
    /\ last.op = "apply_rules"
    /\ Cardinality(MatchingRules(last.ret.description)) = MaxRules
    /\ \E r \in import_rules :
           /\ r.id = MaxRules /\ r.priority = 1 /\ r.account_name = "B"
           /\ last.ret.result.account_name = "B"
           /\ \A q \in import_rules \ {r} :
                  q.priority = 0 /\ q.account_name = "A" /\ TextLess(q.keyword, r.keyword)


(***************************************************************************)
(* C23: every row import_rows posts, as a two-line or a three-line         *)
(* transaction and whatever account the rule names, moves the raw balance  *)
(* of the bank account by the row's amount_cents: a debit for money in, a  *)
(* credit for money out.                                                   *)
(***************************************************************************)
\* The rows of the call that are in no error: those the call posted.
PostedRowNums(ret) ==
    {n \in 1..Len(ret.rows) :
        \A k \in 1..Len(ret.result.errors) : ret.result.errors[k].row # n}

\* The lines on the bank account of the transaction posted for row n.
BankLinesOfRow(ret, n, first_txn_id, ls) ==
    {l \in ls : /\ l.transaction_id
                     = first_txn_id + Cardinality({m \in PostedRowNums(ret) : m < n})
                /\ l.account_id = 1}

C23_BankMovesByRowAmount ==
    [][(/\ last'.op = "import_rows"
        /\ last'.err = "ok"
        /\ Len(last'.ret.result.errors) = last'.ret.result.skipped) =>
           \A n \in PostedRowNums(last'.ret) :
               SumLines(BankLinesOfRow(last'.ret, n, seq_txn + 1, lines'))
                   = last'.ret.rows[n].amount_cents]_vars


(***************************************************************************)
(* C30: for every call of import_rows, rows_processed is the number of     *)
(* rows given, posted + skipped = rows_processed, the call adds posted     *)
(* transactions to the ledger, to_suspense is at most posted, and the      *)
(* errors list has at most 20 entries.                                     *)
(***************************************************************************)
CountsAddUp(ret) ==
    /\ ret.result.rows_processed = Len(ret.rows)
    /\ ret.result.posted + ret.result.skipped = ret.result.rows_processed
    /\ Len(ret.result.errors) <= MaxErrors

C30_ImportCounts ==
    [][(last'.op = "import_rows" /\ last'.err = "ok") =>
           /\ CountsAddUp(last'.ret)
           /\ Cardinality(transactions') - Cardinality(transactions) = last'.ret.result.posted
           /\ last'.ret.result.to_suspense <= last'.ret.result.posted]_vars


(***************************************************************************)
(* C24: delete_transaction of a stored, unlocked transaction removes that  *)
(* transaction and all its lines and nothing else; and every stored line   *)
(* belongs to exactly one stored transaction and names a stored account.   *)
(***************************************************************************)
NoOrphanLines ==
    \A l \in lines :
        /\ Cardinality({t \in transactions : t.id = l.transaction_id}) = 1
        /\ AccountExists(DB, l.account_id)

DeleteRemovesOnly(id, r) ==
    /\ r.err = "ok"
    /\ r.db.transactions = {t \in transactions : t.id # id}
    /\ r.db.lines = lines \ TxnLines(id)
    /\ r.db.accounts = accounts /\ r.db.meta = meta /\ r.db.report_items = report_items

C24_DeleteCascadesNoOrphans ==
    /\ NoOrphanLines
    /\ \A id \in YETxnIds :
           (TxnExists(DB, id) /\ ~TxnLocked(DB, id)) =>
               DeleteRemovesOnly(id, delete_transaction(DB, id))

\* A delete has left the later of two transactions, with its lines, behind.
C24_Witness ==
    /\ last.op = "delete_transaction" /\ last.err = "ok"
    /\ seq_txn = MaxTxnIdYE
    /\ \E t \in transactions : t.id = MaxTxnIdYE /\ Cardinality(TxnLines(t.id)) >= 2
    /\ ~TxnExists(DB, 1)
    /\ TxnLines(1) = {}


(***************************************************************************)
(* C25: delete_report_item refuses, deleting nothing, when a total_to slot *)
(* (any of the six) of any item names the item's account, or when the item *)
(* is an account item whose posting account has a line; otherwise it       *)
(* deletes that item and changes no other item, account or line.           *)
(***************************************************************************)
IsTotalToTarget(item) ==
    /\ item.account_id # NoAccount
    /\ \E x \in report_items, k \in 1..TotalToSlots :
           x.total_to[k] = accounts[item.account_id].name

PostingAccountHasLines(item) ==
    /\ item.item_type = "account"
    /\ item.account_id # NoAccount
    /\ accounts[item.account_id].account_type = "posting"
    /\ \E l \in lines : l.account_id = item.account_id

OthersUnchanged == UNCHANGED <<accounts, transactions, lines, seq_txn, reports, meta>>

C25_DeleteItemRefusesOrDeletesOne ==
    [][\A item \in report_items :
           (last'.op = "delete_report_item" /\ last'.ret = item.id) =>
               IF IsTotalToTarget(item) \/ PostingAccountHasLines(item)
               THEN last'.err # "ok" /\ report_items' = report_items /\ OthersUnchanged
               ELSE last'.err = "ok" /\ report_items' = report_items \ {item}
                    /\ OthersUnchanged]_vars

\* The item of total account C was deleted, no item naming C any more, while an
\* account item whose account has lines stays stored.
C25_Witness ==
    /\ last.op = "delete_report_item" /\ last.err = "ok" /\ last.ret = 1
    /\ \A it \in report_items : it.id # 1
    /\ seq_item = MaxColumnItemId
    /\ lines # {}
    /\ \E it \in report_items : it.item_type = "account" /\ \E l \in lines : l.account_id = it.account_id

(* C26 as stated: whenever year_end(ye_date) returns without raising, it   *)
(* has posted one balanced two-line closing entry dated the day after      *)
(* ye_date, RE.OFS line minus the raw Retained Earnings total of the BS    *)
(* report as of ye_date and RE.OPEN line plus that amount, and has set     *)
(* lock_date to ye_date, so the closing entry is dated after the lock.     *)
BSRetainedEarnings(ye_date) ==
    LET data == compute_report_column(DB, find_report_by_name(DB, <<"B", "S">>), NoDate, ye_date)
    IN data[FirstRE(data)].amount * SignOfName("RE")

ClosingEntryPosted(ye_date, raw_re) ==
    \E t \in transactions' :
        /\ t \notin transactions
        /\ transactions' = transactions \cup {t}
        /\ t.date = ye_date + 1
        /\ lines \subseteq lines'
        /\ lines' \ lines = {l \in lines' : l.transaction_id = t.id}
        /\ Cardinality(lines' \ lines) = 2
        /\ \E ofs, open \in lines' \ lines :
               /\ ofs.account_id = get_account_by_name(DB', "RE.OFS")
               /\ ofs.amount = 0 - raw_re
               /\ open.account_id = get_account_by_name(DB', "RE.OPEN")
               /\ open.amount = raw_re
        /\ meta'.lock_date = ye_date
        /\ t.date > meta'.lock_date

C26_YearEndPostsThenLocks ==
    [][(last'.op = "year_end" /\ last'.err = "ok") =>
          ClosingEntryPosted(last'.ret.ye_date, BSRetainedEarnings(last'.ret.ye_date))]_vars

(* C26 amended: a year_end(ye_date) that returns without raising has       *)
(* posted that closing entry and then set lock_date to ye_date when the RE *)
(* amount of the BS report as of ye_date is not zero; when it is zero it   *)
(* returns a message and leaves every table as it was.                     *)
C26_YearEndPostsUnlessZero ==
    [][(last'.op = "year_end" /\ last'.err = "ok") =>
          IF BSRetainedEarnings(last'.ret.ye_date) = 0
          THEN UNCHANGED Ledger
          ELSE ClosingEntryPosted(last'.ret.ye_date,
                                  BSRetainedEarnings(last'.ret.ye_date))]_vars

\* A year end with retained earnings to roll over has posted and locked.
C26_Witness ==
    /\ last.op = "year_end" /\ last.err = "ok" /\ last.ret.txn_id # NoRow
    /\ meta.lock_date = last.ret.ye_date
    /\ \E t \in transactions :
           /\ t.id = last.ret.txn_id /\ t.date = meta.lock_date + 1
           /\ \E l \in TxnLines(t.id) : l.amount # 0
(* C29: a year_end that raises an error (invalid date, no BS report, no RE *)
(* item, no RE.OPEN account, or a closing entry rejected by                *)
(* add_transaction) leaves the persisted state unchanged: no account,      *)
(* report item, transaction or line is added and lock_date and fiscal_year *)
(* keep their values.                                                      *)
C29_FailedYearEndChangesNothing ==
    [][(last'.op = "year_end" /\ last'.err # "ok") =>
          /\ accounts' = accounts
          /\ report_items' = report_items
          /\ transactions' = transactions
          /\ lines' = lines
          /\ meta' = meta]_vars
(* C27: on the books of create_starter_books, after any successful         *)
(* add_transaction calls on its posting accounts, compute_report_column on *)
(* the BS report returns TOTAL ASSETS (TA) equal to TOTAL LIABILITIES &    *)
(* EQUITY (TL) for every date range, and every posting account reaches     *)
(* exactly one of TA and TL through the total-to chain in at most          *)
(* MaxPasses steps.  The chain is that of the books as created: posting    *)
(* writes no report item.                                                  *)
AmountOf(column, name) ==
    column[CHOOSE i \in 1..Len(column) : column[i].acct_name = name].amount

PostingNames == {accounts[id].name : id \in {i \in 1..Len(accounts) :
                                                 accounts[i].account_type = "posting"}}

C27_StarterBalanceSheetBalances ==
    /\ last.op = "compute_report_column" =>
           AmountOf(last.ret.column, "TA") = AmountOf(last.ret.column, "TL")
    /\ last.op = "create_starter_books" =>
           \A n \in PostingNames :
               Cardinality(Reach(total_to_targets(DB), {n}, MaxPasses) \cap {"TA", "TL"}) = 1

\* A sale for cash: both totals show it, and REV is ten total-to steps from TL.
C27_Witness ==
    /\ last.op = "compute_report_column"
    /\ AmountOf(last.ret.column, "TA") = 1 /\ AmountOf(last.ret.column, "TL") = 1
    /\ \E l \in lines : accounts[l.account_id].name = "REV" /\ l.amount # 0
    /\ "TL" \notin Reach(total_to_targets(DB), {"REV"}, MaxPasses - 1)
(* C28: the lock check of add_transaction is atomic with its write: with   *)
(* add_transaction running beside set_lock_date or year_end of another     *)
(* process, no transaction is committed once a lock date on or after its   *)
(* date has been committed.                                                *)
C28_LockCheckAtomicWithWrite ==
    [][\A t \in transactions' :
          t \notin transactions =>
              ~(meta.lock_date # NoLock /\ t.date <= meta.lock_date)]_vars
====
